---------------------------- MODULE Spec2Model ----------------------------
(***************************************************************************)
(* A model of the per-file linguistic statistics aggregator of the corpus  *)
(* analysis pipeline (src/scripts): the per-response scorers, the          *)
(* file-level mean / standard deviation / coefficient of variation, and    *)
(* the ordering of files in the CSV, JSON and chart outputs.               *)
(*                                                                         *)
(* Strings the code parses or compares (file names, language groups) are   *)
(* sequences of one-character strings, so that the regular expressions,    *)
(* int() and Python's string ordering are computed, not assumed.           *)
(***************************************************************************)
EXTENDS Integers, Sequences, FiniteSets, TLC

VARIABLES
    listing,        \* os.listdir(input_dir): the directory's names, in the order the OS gives them
    pc,             \* which handler of the batch run has completed
    is_merged,      \* the is_merged flag the visualisation scripts were called with
    csv_rows,       \* "File Name" column of the CSV written by process_xml_files (16, 17)
    json_records,   \* "file_name" fields of the JSON written by process_xml_files (16, 17)
    chart_axis,     \* names in the order read_csv_data returns them (23, 24): the bar chart's x-axis
    xml_axis,       \* names in the order read_xml_data traverses them (23): the box plot's x-axis
    table_rows,     \* file column written by process_all_files (10-13) / calculate_statistics (20)
    corpus,         \* which annotator the Doc goes to: "dep", "pos_en" or "pos_zh"
    nlp_doc,        \* the spaCy Doc of one response text
    stage,          \* "doc", "annotated", or the scorer that has run
    response_xml,   \* the <response> element: its <s> elements, each a sequence of <t> elements
    metric,         \* what the scorer returned for the response
    variant,        \* which aggregator summarises the File
    samples,        \* the File's MetricSamples, one per Response, in Response order
    phase,          \* "parsed" or "aggregated"
    stats,          \* the File's SummaryStatistics
    script,         \* which script's batch loop runs: "10", "16", "17" or "20"
    input_dir,      \* the Files of the directory in the order the loop visits them: name and condition
    cursor,         \* position of the next File of the loop
    results,        \* the results list of the run, in memory
    output_csv,     \* the rows of the CSV on disk (without the header)
    output_json,    \* the records of the JSON on disk
    stdout,         \* the lines the run has printed
    outcome,        \* "running", "completed", or the exception that ended the run
    viz,            \* which visualisation script runs: "21", "23" or "draft"
    chart_merged,   \* its is_merged flag
    chart_input,    \* the names it is given: os.listdir (21, draft) or the CSV's rows (23)
    chart_pc,       \* "start", "sorted", "labelled", "rendered"
    sorted_names,   \* the names after the sort
    labels,         \* the x-axis labels made of the names
    raised,         \* the exception that ended the script, "" if none
    warnings,       \* the names logging.warning was called for
    raw_files,      \* the raw response files 1..10 of one language pair: their <response> elements
    merged_xml,     \* the <response> elements of the file merge_xml_files writes
    formalized_xml, \* the files formalize_xml_files writes, each its <response> elements
    text_lines,     \* the lines of the text file extract_text_from_xml writes
    perplexity_results, \* the results list of calculate_perplexity_for_file
    corpus_pc,      \* "raw", "merged", "formalized", "extracted", "scored"
    reader,         \* which function reads the directory for the plots
    plot_dir,       \* the files of its input directory, in os.listdir order: name, condition, content
    plot_data,      \* what it has collected: distances (23), pos_data (22, draft)
    file_names,     \* the file_names list it has collected
    read_pc         \* "start", "returned", or the exception that ended it

sortVars == <<listing, pc, is_merged, csv_rows, json_records, chart_axis, xml_axis, table_rows>>
scoreVars == <<corpus, nlp_doc, stage, response_xml, metric>>
aggVars == <<variant, samples, phase, stats>>

batchVars == <<script, input_dir, cursor, results, output_csv, output_json, stdout, outcome>>

chartVars == <<viz, chart_merged, chart_input, chart_pc, sorted_names, labels, raised, warnings>>

corpusVars ==
    <<raw_files, merged_xml, formalized_xml, text_lines, perplexity_results, corpus_pc>>

plotVars == <<reader, plot_dir, plot_data, file_names, read_pc>>

vars == <<sortVars, scoreVars, aggVars, batchVars, chartVars, corpusVars, plotVars>>

-----------------------------------------------------------------------------
(* Bounds of the model. *)

\* The largest number of names a directory listing holds.
MaxFiles == 3

\* The largest number of tokens of a Response.
MaxTokens == 3

\* The largest number of Responses of a File.
MaxResponses == 3

\* The largest number of tokens of a Response of a File of POS counts.
MaxCounted == 1

-----------------------------------------------------------------------------
(* Characters and strings. *)

DigitChars == {"0", "1", "2", "3", "4", "5", "6", "7", "8", "9"}

\* int() of a one-digit string.
DigitValue(c) ==
    CASE c = "0" -> 0 [] c = "1" -> 1 [] c = "2" -> 2 [] c = "3" -> 3 [] c = "4" -> 4
      [] c = "5" -> 5 [] c = "6" -> 6 [] c = "7" -> 7 [] c = "8" -> 8 [] c = "9" -> 9

\* The code point of a character of a language-group string (ord()).
Ord(c) ==
    CASE c = "_" -> 95 [] c = "e" -> 101 [] c = "h" -> 104 [] c = "n" -> 110 [] c = "z" -> 122

\* Python's < on str: lexicographic by code point, a proper prefix is smaller.
RECURSIVE StrLess(_, _)
StrLess(a, b) ==
    IF b = <<>> THEN FALSE
    ELSE IF a = <<>> THEN TRUE
    ELSE IF Ord(Head(a)) # Ord(Head(b)) THEN Ord(Head(a)) < Ord(Head(b))
    ELSE StrLess(Tail(a), Tail(b))

\* int() of a string of decimal digits.
RECURSIVE IntOf(_)
IntOf(ds) ==
    IF ds = <<>> THEN 0
    ELSE 10 * IntOf(SubSeq(ds, 1, Len(ds) - 1)) + DigitValue(ds[Len(ds)])

\* str.endswith
EndsWith(s, suffix) ==
    /\ Len(s) >= Len(suffix)
    /\ SubSeq(s, Len(s) - Len(suffix) + 1, Len(s)) = suffix

en_en == <<"e", "n", "_", "e", "n">>
zh_en == <<"z", "h", "_", "e", "n">>
en_zh == <<"e", "n", "_", "z", "h">>
zh_zh == <<"z", "h", "_", "z", "h">>

\* The alternatives of the pattern (en_en|zh_en|en_zh|zh_zh).
LangGroups == {en_en, zh_en, en_zh, zh_zh}

DotXml == <<".", "x", "m", "l">>
DotJson == <<".", "j", "s", "o", "n">>
DotTxt == <<".", "t", "x", "t">>


-----------------------------------------------------------------------------
(* File names of the corpus directories. *)

Prefix == <<"r", "_">>

\* A split-corpus file: <prefix><group>_<number><ext>, e.g. r_en_en_10.xml
SplitName(group, digits, ext) == Prefix \o group \o <<"_">> \o digits \o ext

\* A merged-corpus file: <prefix><group><ext>, e.g. r_en_en.xml
MergedName(group, ext) == Prefix \o group \o ext

\* Names that hold no category key.
OtherStems == {<<"n", "o", "t", "e", "s">>, <<"d", "r", "a", "f", "t">>}

\* The sequence numbers the pool uses, as written in a file name.
FileNumbers == {<<"2">>, <<"1", "0">>}

\* The names a directory may hold: the corpus files of its mode (split or merged),
\* whose names end in ext, and files that are not part of the corpus.
NamePool(merged, ext) ==
    (IF merged
     THEN {MergedName(g, ext) : g \in LangGroups}
     ELSE {SplitName(g, d, ext) : g \in LangGroups, d \in FileNumbers})
        \cup {stem \o ext : stem \in OtherStems}
        \cup {<<"l", "o", "g">> \o DotTxt}

\* Sequences of distinct elements of S, of length at most n.
DistinctSeqs(S, n) ==
    UNION {{s \in [1..k -> S] : \A i, j \in 1..k : i # j => s[i] # s[j]} : k \in 0..n}

\* [f for f in os.listdir(input_dir) if f.endswith(ext)]
FilesEndingWith(names, ext) == SelectSeq(names, LAMBDA f : EndsWith(f, ext))

-----------------------------------------------------------------------------
(* Sort keys, and Python's sorted(). *)

IntKey(n) == [t |-> "int", v |-> n]
StrKey(s) == [t |-> "str", v |-> s]
TupleKey(a, b) == [t |-> "tuple", v |-> <<a, b>>]

\* Python's < on two keys of the same shape.
RECURSIVE KeyLess(_, _)
KeyLess(a, b) ==
    CASE a.t = "int" /\ b.t = "int" -> a.v < b.v
      [] a.t = "str" /\ b.t = "str" -> StrLess(a.v, b.v)
      [] a.t = "tuple" /\ b.t = "tuple" ->
            \/ KeyLess(a.v[1], b.v[1])
            \/ a.v[1] = b.v[1] /\ KeyLess(a.v[2], b.v[2])

\* Where sorted() puts the i-th item: after every item with a smaller key and, the
\* sort being stable, after every earlier item with an equal key.
SortedReverseTies(items, keys) ==
    LET Rank(i) == 1 + Cardinality({j \in DOMAIN keys :
                        \/ KeyLess(keys[j], keys[i])
                        \/ ~KeyLess(keys[i], keys[j]) /\ j > i})
    IN  [p \in 1..Len(items) |-> items[CHOOSE i \in DOMAIN keys : Rank(i) = p]]

\* sorted(items, key=...) with keys[i] the key of items[i].
Sorted(items, keys) ==
    LET Rank(i) == 1 + Cardinality({j \in DOMAIN keys :
                        \/ KeyLess(keys[j], keys[i])
                        \/ ~KeyLess(keys[i], keys[j]) /\ j < i})
    IN  [p \in 1..Len(items) |-> items[CHOOSE i \in DOMAIN keys : Rank(i) = p]]

-----------------------------------------------------------------------------
(* The regular expressions of the sorters. *)

\* The positions at which (en_en|zh_en|en_zh|zh_zh)_(\d+) matches.
SplitMatches(name) ==
    {i \in 1..Len(name) :
        /\ i + 6 <= Len(name)
        /\ SubSeq(name, i, i + 4) \in LangGroups
        /\ name[i + 5] = "_"
        /\ name[i + 6] \in DigitChars}

\* The positions at which (en_en|zh_en|en_zh|zh_zh) matches.
GroupMatches(name) ==
    {i \in 1..Len(name) : i + 4 <= Len(name) /\ SubSeq(name, i, i + 4) \in LangGroups}

\* re.search: the leftmost match.
FirstOf(S) == CHOOSE i \in S : \A j \in S : i <= j

\* (\d+) is greedy: the longest run of digits that starts at position k.
DigitsFrom(name, k) ==
    LET stop == CHOOSE e \in k..Len(name) :
                    /\ \A x \in k..e : name[x] \in DigitChars
                    /\ e = Len(name) \/ name[e + 1] \notin DigitChars
    IN  SubSeq(name, k, stop)

\* order = {'en_en': 0, 'zh_en': 1, 'en_zh': 2, 'zh_zh': 3} of custom_sort.
order(lang_group) ==
    CASE lang_group = en_en -> 0 [] lang_group = zh_en -> 1
      [] lang_group = en_zh -> 2 [] lang_group = zh_zh -> 3

\* extract_key(file_name) of 16_calculate_dependency_distance.py and
\* 17_calculate_dependency_direction.py.
extract_key(file_name) ==
    IF SplitMatches(file_name) # {}
    THEN LET i == FirstOf(SplitMatches(file_name))
             lang_group == SubSeq(file_name, i, i + 4)
             num == IntOf(DigitsFrom(file_name, i + 6))
         IN  TupleKey(StrKey(lang_group), IntKey(num))
    ELSE TupleKey(StrKey(<<>>), IntKey(0))

\* sort_files(file_list)
sort_files(file_list) ==
    Sorted(file_list, [i \in DOMAIN file_list |-> extract_key(file_list[i])])

\* custom_sort(file_name, is_merged) of 22_, 23_ and 24_..._visualization.py.
custom_sort(file_name, merged) ==
    IF merged
    THEN IF GroupMatches(file_name) # {}
         THEN LET i == FirstOf(GroupMatches(file_name))
              IN  IntKey(order(SubSeq(file_name, i, i + 4)))
         ELSE IntKey(999)
    ELSE IF SplitMatches(file_name) # {}
         THEN LET i == FirstOf(SplitMatches(file_name))
                  lang_group == SubSeq(file_name, i, i + 4)
                  num == IntOf(DigitsFrom(file_name, i + 6))
              IN  TupleKey(IntKey(num), IntKey(order(lang_group)))
         ELSE TupleKey(IntKey(999), IntKey(999))

\* sorted(names, key=lambda x: custom_sort(x, is_merged))
SortedByCustomSort(names, merged) ==
    Sorted(names, [i \in DOMAIN names |-> custom_sort(names[i], merged)])

-----------------------------------------------------------------------------
(* Numbers.  A Python or numpy number is an exact rational [k, n, d] with d > 0 *)
(* in lowest terms, a multiple of the square root of one ("surd"), or one of   *)
(* the special results of a division or of a mean.                             *)

RECURSIVE GCD(_, _)
GCD(a, b) == IF b = 0 THEN a ELSE GCD(b, a % b)

Abs(x) == IF x < 0 THEN -x ELSE x

\* The rational n/d (d # 0), in lowest terms.
Frac(n, d) ==
    LET g == GCD(Abs(n), Abs(d))
        sgn == IF d < 0 THEN -1 ELSE 1
    IN  [k |-> "num", n |-> sgn * (n \div g), d |-> sgn * (d \div g)]

Whole(n) == [k |-> "num", n |-> n, d |-> 1]
Zero == Whole(0)
One == Whole(1)

\* numpy's nan and inf, and Python's ZeroDivisionError.
NaN == [k |-> "nan", n |-> 0, d |-> 1]
Inf == [k |-> "inf", n |-> 0, d |-> 1]
ZeroDivisionError == [k |-> "ZeroDivisionError", n |-> 0, d |-> 1]
TypeError == [k |-> "TypeError", n |-> 0, d |-> 1]
AttributeError == [k |-> "AttributeError", n |-> 0, d |-> 1]

IsNum(x) == x.k = "num"

Plus(x, y) == Frac(x.n * y.d + y.n * x.d, x.d * y.d)
Minus(x, y) == Frac(x.n * y.d - y.n * x.d, x.d * y.d)
Times(x, y) == Frac(x.n * y.n, x.d * y.d)
Over(x, y) == Frac(x.n * y.d, x.d * y.n)

\* x > 0 and x != 0 as Python evaluates them: every comparison with nan is False
\* except !=.
GreaterThanZero(x) ==
    \/ x.k = "inf"
    \/ x.k = "surd" /\ x.times > 0
    \/ x.k = "num" /\ x.n > 0

NotEqualZero(x) == x # Zero

\* a / b on Python ints (and on the int 0 and a float): a zero divisor raises.
PyDivide(a, b) == IF b = 0 THEN ZeroDivisionError ELSE Frac(a, b)

\* The sum of xs, added up by halves as numpy's reduction does (the sum is
\* exact here, so the order of the additions does not show).
RECURSIVE SumOf(_)
SumOf(xs) ==
    IF xs = <<>> THEN Zero
    ELSE IF Len(xs) = 1 THEN xs[1]
    ELSE LET half == Len(xs) \div 2
         IN  Plus(SumOf(SubSeq(xs, 1, half)), SumOf(SubSeq(xs, half + 1, Len(xs))))

\* times * sqrt(q) for a rational q >= 0: rational when q is a square, else a
\* surd [k, n, d, times] with q = n/d.
ScaledSqrt(times, q) ==
    LET IsSquare(m) == \E r \in 0..m : r * r = m
        Root(m) == CHOOSE r \in 0..m : r * r = m
    IN  IF IsSquare(q.n) /\ IsSquare(q.d)
        THEN Frac(times * Root(q.n), Root(q.d))
        ELSE [k |-> "surd", n |-> q.n, d |-> q.d, times |-> times]

Sqrt(q) == ScaledSqrt(1, q)

\* 10 ** digits
RECURSIVE PowerOfTen(_)
PowerOfTen(digits) == IF digits = 0 THEN 1 ELSE 10 * PowerOfTen(digits - 1)

\* The largest f in lo..hi with f * f <= a / d (lo has it), by bisection.
RECURSIVE FloorRoot(_, _, _, _)
FloorRoot(a, d, lo, hi) ==
    IF lo = hi THEN lo
    ELSE LET mid == (lo + hi + 1) \div 2
         IN  IF mid * mid <= a \div d THEN FloorRoot(a, d, mid, hi) ELSE FloorRoot(a, d, lo, mid - 1)

\* round(x, digits) of a float x >= 0, as the integer round(x, digits) *
\* 10 ** digits: the nearest one, a tie going to the even one.
Rounded(x, digits) ==
    IF x.k = "surd"
    THEN LET a == x.times * x.times * x.n * PowerOfTen(digits) * PowerOfTen(digits)
             f == FloorRoot(a, x.d, 0, x.times * PowerOfTen(digits) * (x.n \div x.d + 1))
         IN  IF 4 * (a - f * f * x.d - f * x.d) >= x.d THEN f + 1 ELSE f
    ELSE LET p == x.n * PowerOfTen(digits)
             q == p \div x.d
             rest == p % x.d
         IN  IF 2 * rest > x.d \/ (2 * rest = x.d /\ q % 2 = 1) THEN q + 1 ELSE q

\* np.mean(xs): nan for an empty list (numpy warns, and does not raise).
np_mean(xs) ==
    IF xs = <<>> THEN NaN ELSE Over(SumOf(xs), Whole(Len(xs)))

\* np.std(xs, ddof=1): the sample standard deviation (divisor N - 1), which the
\* aggregators do not ask for; nan for fewer than two values.
SampleStd(xs) ==
    IF Len(xs) < 2 THEN NaN
    ELSE LET m == np_mean(xs)
             sq == [i \in DOMAIN xs |-> Times(Minus(xs[i], m), Minus(xs[i], m))]
         IN  Sqrt(Over(SumOf(sq), Whole(Len(xs) - 1)))

\* np.std(xs): sqrt(mean(abs(x - x.mean()) ** 2)), the population standard
\* deviation (divisor N); nan for an empty list.
np_std(xs) ==
    IF xs = <<>> THEN NaN
    ELSE LET m == np_mean(xs)
             sq == [i \in DOMAIN xs |-> Times(Minus(xs[i], m), Minus(xs[i], m))]
         IN  Sqrt(np_mean(sq))

\* std_dev / mean * 100 on numpy floats: a zero divisor gives nan or inf (numpy
\* warns, and does not raise), and nan propagates.
StdOverMeanTimes100(std_dev, mean) ==
    IF std_dev.k = "nan" \/ mean.k = "nan" THEN NaN
    ELSE IF mean = Zero THEN (IF std_dev = Zero THEN NaN ELSE Inf)
    ELSE IF std_dev.k = "num" THEN Times(Over(std_dev, mean), Whole(100))
    ELSE ScaledSqrt(IF mean.n > 0 THEN 100 ELSE -100,
                    Over([k |-> "num", n |-> std_dev.n, d |-> std_dev.d], Times(mean, mean)))

-----------------------------------------------------------------------------
(* The annotator's input: a spaCy Doc is a sequence of sentences, a sentence  *)
(* a non-empty sequence of tokens.  A parsed token has its text and its head, *)
(* given as the head's position in the sentence (the root is its own head); a *)
(* tagged token has its text, coarse tag (pos) and fine tag (tag).            *)

\* Words of a parsed Doc.
DepTexts == {<<"m", "a", "n">>, <<"s", "a", "w">>}

\* Tagged English tokens.
EnLexicon ==
    {[text |-> <<"T", "h", "e">>, pos |-> "DET", tag |-> "DT"],
     [text |-> <<"r", "e", "p", "o", "r", "t">>, pos |-> "NOUN", tag |-> "NN"],
     [text |-> <<"r", "e", "p", "o", "r", "t", "s">>, pos |-> "NOUN", tag |-> "NNS"],
     [text |-> <<"S", "m", "i", "t", "h">>, pos |-> "PROPN", tag |-> "NNP"],
     [text |-> <<"S", "m", "i", "t", "h", "s">>, pos |-> "PROPN", tag |-> "NNPS"],
     [text |-> <<"w", "a", "s">>, pos |-> "AUX", tag |-> "VBD"],
     [text |-> <<"f", "i", "l", "e", "d">>, pos |-> "VERB", tag |-> "VBN"]}

\* Tagged Chinese tokens; a character is written as its pinyin syllable.
ZhLexicon ==
    {[text |-> <<"xue", "sheng", "men">>, pos |-> "NOUN", tag |-> "NN"],
     [text |-> <<"ge", "men", "er">>, pos |-> "NOUN", tag |-> "NN"],
     [text |-> <<"shu">>, pos |-> "NOUN", tag |-> "NN"],
     [text |-> <<"xie">>, pos |-> "DET", tag |-> "DT"],
     [text |-> <<"xu", "duo">>, pos |-> "NUM", tag |-> "CD"],
     [text |-> <<"bei">>, pos |-> "X", tag |-> "LB"],
     [text |-> <<"bei", "zi">>, pos |-> "NOUN", tag |-> "NN"]}

\* The elements of a finite set of integers, ascending.
Ascending(S) ==
    [k \in 1..Cardinality(S) |-> CHOOSE x \in S : Cardinality({y \in S : y < x}) = k - 1]

\* The sentences of a token sequence cut after the positions in cuts.
SplitAt(toks, cuts) ==
    LET starts == Ascending({1} \cup {c + 1 : c \in cuts})
        stop(k) == IF k = Len(starts) THEN Len(toks) ELSE starts[k + 1] - 1
    IN  IF toks = <<>> THEN <<>>
        ELSE [k \in DOMAIN starts |-> SubSeq(toks, starts[k], stop(k))]

\* The Docs of at most n tokens over a lexicon, under every sentence segmentation.
DocsOver(lexicon, n) ==
    UNION {{SplitAt(toks, cuts) : toks \in [1..len -> lexicon], cuts \in SUBSET (1..(len - 1))}
               : len \in 0..n}

\* A dependency parse of a sentence is a tree: one root, which is its own head,
\* and from every token the heads lead to the root.
IsTree(heads) ==
    LET n == Len(heads)
        RECURSIVE Climb(_, _)
        Climb(p, steps) == IF steps = 0 THEN p ELSE Climb(heads[p], steps - 1)
    IN  /\ Cardinality({p \in 1..n : heads[p] = p}) = 1
        /\ \A p \in 1..n : heads[Climb(p, n)] = Climb(p, n)

ParsedSentences(len) ==
    {[p \in 1..len |-> [text |-> texts[p], head |-> heads[p]]] :
        texts \in [1..len -> DepTexts], heads \in {h \in [1..len -> 1..len] : IsTree(h)}}

\* The parsed Docs of at most n tokens.
RECURSIVE ParsedDocs(_)
ParsedDocs(n) ==
    {<<>>} \cup UNION {{<<s>> \o rest : s \in ParsedSentences(len), rest \in ParsedDocs(n - len)}
                          : len \in 1..n}

-----------------------------------------------------------------------------
(* The annotators: the <s> and <t> elements written into a <response>.  An   *)
(* element is a record of its attributes and its text.                       *)

\* str() of a natural number.
RECURSIVE Str(_)
Str(n) ==
    LET digit(k) == CHOOSE c \in DigitChars : DigitValue(c) = k
    IN  IF n < 10 THEN <<digit(n)>> ELSE Str(n \div 10) \o <<digit(n % 10)>>

ResponseId == <<"p", "1", "-", "r", "1">>

\* f"{response.get('id')}-s{sentence_id}" and f"{s_elem.get('id')}-t{token_id}"
SentenceId(sentence_id) == ResponseId \o <<"-", "s">> \o Str(sentence_id)
TokenId(sentence_id, token_id) == SentenceId(sentence_id) \o <<"-", "t">> \o Str(token_id)

\* dependency_parsing of 14_ and 15_dependency_parsing: per token the id, the
\* head's text and the distance to the head.
dependency_parsing(doc) ==
    [si \in DOMAIN doc |->
        [ti \in DOMAIN doc[si] |->
            [id |-> TokenId(si, ti),
             head |-> doc[si][doc[si][ti].head].text,
             dep_distance |-> Str(Abs(ti - doc[si][ti].head)),
             text |-> doc[si][ti].text]]]

\* pos_tagging of 6_pos_tagging_en.py and 7_pos_tagging_zh.py: per token the id
\* and the coarse and fine tag.
pos_tagging(doc) ==
    [si \in DOMAIN doc |->
        [ti \in DOMAIN doc[si] |->
            [id |-> TokenId(si, ti),
             pos |-> doc[si][ti].pos,
             tag |-> doc[si][ti].tag,
             text |-> doc[si][ti].text]]]

-----------------------------------------------------------------------------
(* The per-response scorers. *)

\* element.get(attr) of an absent attribute.
None == "None"

Get(elem, attr) == IF attr \in DOMAIN elem THEN elem[attr] ELSE None

\* None where the code expects a str (an id, a head, a distance, a text): a
\* sequence that is no string of characters.
NoneStr == <<None>>

\* element.get(attr) of an attribute whose value is a string of characters, and
\* element.text, which is None for an element without text.
GetStr(elem, attr) == IF attr \in DOMAIN elem THEN elem[attr] ELSE NoneStr
Text(elem) == GetStr(elem, "text")

RECURSIVE Flatten(_)
Flatten(seqs) == IF seqs = <<>> THEN <<>> ELSE Head(seqs) \o Flatten(Tail(seqs))

\* response.findall(".//t"): the tokens of all sentences, in document order.
AllTokens(response) == Flatten(response)

\* How many elements of a sequence pass a test.
Count(seq, Test(_)) == Cardinality({i \in DOMAIN seq : Test(seq[i])})

\* sub in word, on strings.
Contains(word, sub) ==
    \E i \in 1..(Len(word) - Len(sub) + 1) : SubSeq(word, i, i + Len(sub) - 1) = sub

singular_tags == {"NN", "NNP"}

\* plural_tags without the tag of plural proper nouns.
PluralTagsCommonOnly == {"NNS"}

plural_tags == {"NNS", "NNPS"}

\* The scorer of 10_ without its guard on total_nouns.
PluralNounFrequencyUnguarded(response) ==
    LET toks == AllTokens(response)
        singular == Count(toks, LAMBDA t : Get(t, "tag") \in singular_tags)
        plural == Count(toks, LAMBDA t : Get(t, "tag") \in plural_tags)
    IN  PyDivide(plural, singular + plural)

\* The scorer of 10_ dividing by the singular nouns instead of all nouns.
PluralOverSingular(response) ==
    LET toks == AllTokens(response)
        singular == Count(toks, LAMBDA t : Get(t, "tag") \in singular_tags)
        plural == Count(toks, LAMBDA t :
                      Get(t, "tag") \notin singular_tags /\ Get(t, "tag") \in plural_tags)
    IN  IF singular > 0 THEN PyDivide(plural, singular) ELSE Zero

\* calculate_plural_noun_frequency_per_response of 10_plural_noun_frequency_en.py
calculate_plural_noun_frequency_per_response_en(response) ==
    LET toks == AllTokens(response)
        singular == Count(toks, LAMBDA t : Get(t, "tag") \in singular_tags)
        plural == Count(toks, LAMBDA t :
                      Get(t, "tag") \notin singular_tags /\ Get(t, "tag") \in plural_tags)
        total_nouns == singular + plural
    IN  IF total_nouns > 0 THEN PyDivide(plural, total_nouns) ELSE Zero

suffix_plural == {<<"men">>}
det_plural == {<<"ge">>, <<"xie">>}
num_plural == {<<"zhu">>, <<"xu", "duo">>}
noun_pos == {"NOUN"}
det_pos == {"DET"}
num_pos == {"NUM"}

\* calculate_plural_noun_frequency_per_response of 11_plural_noun_frequency_zh.py
calculate_plural_noun_frequency_per_response_zh(response) ==
    LET toks == AllTokens(response)
        total_noun_count == Count(toks, LAMBDA t : Get(t, "pos") \in noun_pos)
        plural_noun_count == Count(toks, LAMBDA t :
            IF Get(t, "pos") \in noun_pos
            THEN \E suffix \in suffix_plural : Contains(Text(t), suffix)
            ELSE IF Get(t, "pos") \in det_pos /\ Text(t) \in det_plural THEN TRUE
            ELSE Get(t, "pos") \in num_pos /\ Text(t) \in num_plural)
    IN  \* "suffix in word" with word = None: argument of type 'NoneType' is not iterable
        IF \E i \in DOMAIN toks : Get(toks[i], "pos") \in noun_pos /\ Text(toks[i]) = NoneStr
        THEN TypeError
        ELSE IF total_noun_count > 0 THEN PyDivide(plural_noun_count, total_noun_count)
        ELSE Zero

\* The scorer of 12_ counting every AUX + VBN pair instead of every sentence
\* that has one.
PassiveFrequencyCountingPairs(response) ==
    LET pairs(si) ==
            {<<si, i>> : i \in {j \in 1..(Len(response[si]) - 1) :
                Get(response[si][j], "pos") = "AUX" /\ Get(response[si][j + 1], "tag") = "VBN"}}
        total_sentence_count == Len(response)
        passive_sentence_count == Cardinality(UNION {pairs(si) : si \in DOMAIN response})
    IN  IF total_sentence_count > 0
        THEN PyDivide(passive_sentence_count, total_sentence_count)
        ELSE Zero

\* calculate_passive_frequency_per_response of 12_passive_voice_frequency_en.py
calculate_passive_frequency_per_response_en(response) ==
    LET is_passive(tokens) ==
            \E i \in 1..(Len(tokens) - 1) :
                Get(tokens[i], "pos") = "AUX" /\ Get(tokens[i + 1], "tag") = "VBN"
        total_sentence_count == Len(response)
        passive_sentence_count == Count(response, is_passive)
    IN  IF total_sentence_count > 0
        THEN PyDivide(passive_sentence_count, total_sentence_count)
        ELSE Zero

passive_marker == <<"bei">>

\* The scorer of 13_ looking for the marker inside the token's text.
PassiveFrequencyMarkerInside(response) ==
    LET has_marker(tokens) ==
            \E i \in DOMAIN tokens :
                Text(tokens[i]) # NoneStr /\ Contains(Text(tokens[i]), passive_marker)
        total_sentences == Len(response)
        passive_sentences == Count(response, has_marker)
    IN  IF total_sentences > 0 THEN PyDivide(passive_sentences, total_sentences) ELSE Zero

\* calculate_passive_frequency_per_response of 13_passive_voice_frequency_zh.py
calculate_passive_frequency_per_response_zh(response) ==
    LET has_marker(tokens) == \E i \in DOMAIN tokens : Text(tokens[i]) = passive_marker
        total_sentences == Len(response)
        passive_sentences == Count(response, has_marker)
    IN  IF total_sentences > 0 THEN PyDivide(passive_sentences, total_sentences) ELSE Zero

RECURSIVE SumInts(_)
SumInts(ns) == IF ns = <<>> THEN 0 ELSE Head(ns) + SumInts(Tail(ns))

\* The body of the loop of calculate_distance (16_calculate_dependency_distance.py):
\* the average dependency distance of one response.
response_avg_distance(response) ==
    LET toks == AllTokens(response)
        total_distance == SumInts([i \in DOMAIN toks |-> IntOf(toks[i].dep_distance)])
        token_count == Len(toks)
    IN  \* int(None): int() argument must be a string ... not 'NoneType'
        IF \E i \in DOMAIN toks : GetStr(toks[i], "dep_distance") = NoneStr
        THEN TypeError
        ELSE IF token_count > 0 THEN PyDivide(total_distance, token_count)
        ELSE Zero

\* s.split(sep)[-1]: what follows the last occurrence of sep (all of s if none).
AfterLastSplit(str, sep) ==
    LET at == {i \in 1..Len(str) : i + Len(sep) - 1 <= Len(str)
                                     /\ SubSeq(str, i, i + Len(sep) - 1) = sep}
    IN  IF at = {} THEN str
        ELSE LET last == CHOOSE i \in at : \A j \in at : j <= i
             IN  SubSeq(str, last + Len(sep), Len(str))

\* int(token.get('id').split('-t')[-1])
TokenNumber(token) == IntOf(AfterLastSplit(token.id, <<"-", "t">>))

\* token_to_id.get(head_text), with token_to_id = {token.text: id for token in s}:
\* a later token of the same text replaces an earlier one.  <<>> stands for None.
HeadId(s_elem, token) ==
    LET same == {i \in DOMAIN s_elem : Text(s_elem[i]) = GetStr(token, "head")}
    IN  IF same = {} THEN <<>>
        ELSE <<TokenNumber(s_elem[CHOOSE i \in same : \A j \in same : j <= i])>>

\* The counting loop of calculate_dependency_proportions with the second test
\* replaced by a plain else: a token that is its own head counts as "after".
DirectionCountsTiesAfter(response) ==
    LET toks == UNION {{<<si, ti>> : ti \in DOMAIN response[si]} : si \in DOMAIN response}
        head_id(st) == HeadId(response[st[1]], response[st[1]][st[2]])
        token_id(st) == TokenNumber(response[st[1]][st[2]])
        Truthy(h) == h # <<>> /\ h[1] # 0
        before(st) == Truthy(head_id(st)) /\ head_id(st)[1] > token_id(st)
    IN  <<Cardinality({st \in toks : before(st)}), Cardinality({st \in toks : ~before(st)})>>

\* The counting loop of calculate_dependency_proportions
\* (17_calculate_dependency_direction.py): <<before_count, after_count>>.
direction_counts(response) ==
    LET toks == UNION {{<<si, ti>> : ti \in DOMAIN response[si]} : si \in DOMAIN response}
        head_id(st) == HeadId(response[st[1]], response[st[1]][st[2]])
        token_id(st) == TokenNumber(response[st[1]][st[2]])
        Truthy(h) == h # <<>> /\ h[1] # 0
        before(st) == Truthy(head_id(st)) /\ head_id(st)[1] > token_id(st)
        after(st) == ~before(st) /\ Truthy(head_id(st)) /\ head_id(st)[1] < token_id(st)
    IN  <<Cardinality({st \in toks : before(st)}), Cardinality({st \in toks : after(st)})>>

\* calculate_dependency_proportions, for one response:
\* <<before_proportion, after_proportion>>; when the call raises, both places
\* hold the exception.
dependency_proportions(response) ==
    LET toks == AllTokens(response)
        before_count == direction_counts(response)[1]
        after_count == direction_counts(response)[2]
        total_count == before_count + after_count
    IN  \* token.get('id').split: 'NoneType' object has no attribute 'split'
        IF \E i \in DOMAIN toks : GetStr(toks[i], "id") = NoneStr
        THEN <<AttributeError, AttributeError>>
        ELSE IF total_count > 0
        THEN <<PyDivide(before_count, total_count), PyDivide(after_count, total_count)>>
        ELSE <<Zero, Zero>>

pos_order ==
    <<"NOUN", "PROPN", "VERB", "AUX", "ADJ", "ADV", "PRON", "NUM", "DET", "PART",
      "CCONJ", "SCONJ", "ADP", "INTJ", "PUNCT", "X", "NON-ZH">>

PosTags == {pos_order[i] : i \in DOMAIN pos_order}

\* pos_counts of count_pos_tags (8_pos_tag_counting.py): a Counter of the coarse
\* tags of the response's tokens, those without one left out.
count_pos_tags(response) ==
    LET toks == AllTokens(response)
        Truthy(v) == v # None /\ v # ""
        seen == {Get(toks[i], "pos") : i \in {j \in DOMAIN toks : Truthy(Get(toks[j], "pos"))}}
    IN  [pos \in seen |-> Count(toks, LAMBDA t : Get(t, "pos") = pos)]

\* pos_counts.get(pos, 0)
CountOf(pos_counts, pos) == IF pos \in DOMAIN pos_counts THEN pos_counts[pos] ELSE 0

\* The relative frequencies of one response in calculate_stats
\* (9_calculate_pos_statistics.py), per tag of pos_order.
pos_relative_frequencies(pos_counts) ==
    LET total == SumInts([i \in DOMAIN pos_order |-> CountOf(pos_counts, pos_order[i])])
    IN  [pos \in PosTags |-> IF total > 0 THEN PyDivide(CountOf(pos_counts, pos), total) ELSE Zero]

-----------------------------------------------------------------------------
(* The batch run over one directory: which names the writers emit, in which  *)
(* order.  The statistics of a row are modelled with the aggregators below.  *)

\* The variables of the other runs, at rest.
ScoreIdle ==
    /\ corpus = "none"
    /\ nlp_doc = <<>>
    /\ stage = "idle"
    /\ response_xml = <<>>
    /\ metric = Zero

AggIdle ==
    /\ variant = "none"
    /\ samples = <<>>
    /\ phase = "idle"
    /\ stats = <<>>

ChartIdle ==
    /\ viz = "none"
    /\ chart_merged = FALSE
    /\ chart_input = <<>>
    /\ chart_pc = "idle"
    /\ sorted_names = <<>>
    /\ labels = <<>>
    /\ raised = ""
    /\ warnings = {}

PlotIdle ==
    /\ reader = "none"
    /\ plot_dir = <<>>
    /\ plot_data = <<>>
    /\ file_names = <<>>
    /\ read_pc = "idle"

CorpusIdle ==
    /\ raw_files = <<>>
    /\ merged_xml = <<>>
    /\ formalized_xml = <<>>
    /\ text_lines = <<>>
    /\ perplexity_results = <<>>
    /\ corpus_pc = "idle"

BatchIdle ==
    /\ script = "none"
    /\ input_dir = <<>>
    /\ cursor = 0
    /\ results = <<>>
    /\ output_csv = <<>>
    /\ output_json = <<>>
    /\ stdout = <<>>
    /\ outcome = "idle"

SortIdle ==
    /\ listing = <<>>
    /\ pc = "idle"
    /\ is_merged = FALSE
    /\ csv_rows = <<>>
    /\ json_records = <<>>
    /\ chart_axis = <<>>
    /\ xml_axis = <<>>
    /\ table_rows = <<>>

InitSort ==
    /\ \E merged \in BOOLEAN, ext \in {DotXml, DotJson} :
          /\ is_merged = merged
          /\ listing \in DistinctSeqs(NamePool(merged, ext), MaxFiles)
    /\ pc = "start"
    /\ csv_rows = <<>>
    /\ json_records = <<>>
    /\ chart_axis = <<>>
    /\ xml_axis = <<>>
    /\ table_rows = <<>>
    /\ ScoreIdle
    /\ AggIdle
    /\ BatchIdle
    /\ ChartIdle
    /\ CorpusIdle
    /\ PlotIdle

\* process_xml_files of 16_calculate_dependency_distance.py and
\* 17_calculate_dependency_direction.py: one CSV row and one JSON record per
\* file of sort_files(xml_files), written in the same loop.
process_xml_files ==
    /\ pc = "start"
    /\ LET xml_files == FilesEndingWith(listing, DotXml)
           sorted_files == sort_files(xml_files)
       IN  /\ csv_rows' = sorted_files
           /\ json_records' = sorted_files
    /\ pc' = "aggregated"
    /\ UNCHANGED <<listing, is_merged, chart_axis, xml_axis, table_rows>>
    /\ UNCHANGED <<scoreVars, aggVars, batchVars, chartVars, corpusVars, plotVars>>

\* read_csv_data of 23_ and 24_..._visualization.py: the rows of the CSV, sorted
\* by custom_sort.
read_csv_data ==
    /\ pc = "aggregated"
    /\ chart_axis' = SortedByCustomSort(csv_rows, is_merged)
    /\ pc' = "csv_read"
    /\ UNCHANGED <<listing, is_merged, csv_rows, json_records, xml_axis, table_rows>>
    /\ UNCHANGED <<scoreVars, aggVars, batchVars, chartVars, corpusVars, plotVars>>

\* read_xml_data of 23_dependency_distance_visualization.py: the directory's XML
\* files, sorted by custom_sort.
read_xml_data ==
    /\ pc = "csv_read"
    /\ xml_axis' = SortedByCustomSort(FilesEndingWith(listing, DotXml), is_merged)
    /\ pc' = "plotted"
    /\ UNCHANGED <<listing, is_merged, csv_rows, json_records, chart_axis, table_rows>>
    /\ UNCHANGED <<scoreVars, aggVars, batchVars, chartVars, corpusVars, plotVars>>

\* process_all_files of 10_ to 13_: one row per XML file, in os.listdir order.
process_all_files ==
    /\ pc = "start"
    /\ table_rows' = FilesEndingWith(listing, DotXml)
    /\ pc' = "tabulated"
    /\ UNCHANGED <<listing, is_merged, csv_rows, json_records, chart_axis, xml_axis>>
    /\ UNCHANGED <<scoreVars, aggVars, batchVars, chartVars, corpusVars, plotVars>>

\* calculate_statistics of 20_calculate_perplexity_loss_statistics.py: one record
\* per JSON file, in os.listdir order.
calculate_statistics ==
    /\ pc = "start"
    /\ table_rows' = FilesEndingWith(listing, DotJson)
    /\ pc' = "recorded"
    /\ UNCHANGED <<listing, is_merged, csv_rows, json_records, chart_axis, xml_axis>>
    /\ UNCHANGED <<scoreVars, aggVars, batchVars, chartVars, corpusVars, plotVars>>

NextSort ==
    \/ process_xml_files
    \/ read_csv_data
    \/ read_xml_data
    \/ process_all_files
    \/ calculate_statistics

SpecSort == InitSort /\ [][NextSort]_vars

-----------------------------------------------------------------------------
(* Scoring one response: the annotator writes the <response> element, then   *)
(* one of the scorers reads it.                                              *)

Corpora == {"dep", "pos_en", "pos_zh"}

\* Two English Docs of one sentence of four tokens: "The report was filed" and
\* "was filed was filed".
FourTokenDocs ==
    LET tok(text) == CHOOSE t \in EnLexicon : t.text = text
        The == tok(<<"T", "h", "e">>)
        report == tok(<<"r", "e", "p", "o", "r", "t">>)
        was == tok(<<"w", "a", "s">>)
        filed == tok(<<"f", "i", "l", "e", "d">>)
    IN  {<< <<The, report, was, filed>> >>, << <<was, filed, was, filed>> >>}

\* An English Doc with a token whose coarse tag spaCy gives and pos_order of
\* 9_calculate_pos_statistics.py does not list: "report $", the "$" tagged SYM.
SymbolDocs ==
    LET report == CHOOSE t \in EnLexicon : t.text = <<"r", "e", "p", "o", "r", "t">>
        dollar == [text |-> <<"$">>, pos |-> "SYM", tag |-> "$"]
    IN  {<< <<report, dollar>> >>}

Docs(c) ==
    CASE c = "dep" -> ParsedDocs(MaxTokens)
      [] c = "pos_en" -> DocsOver(EnLexicon, MaxTokens) \cup FourTokenDocs \cup SymbolDocs
      [] c = "pos_zh" -> DocsOver(ZhLexicon, MaxTokens)

InitScore ==
    /\ corpus \in Corpora
    /\ nlp_doc \in Docs(corpus)
    /\ stage = "doc"
    /\ response_xml = <<>>
    /\ metric = Zero
    /\ SortIdle
    /\ AggIdle
    /\ BatchIdle
    /\ ChartIdle
    /\ CorpusIdle
    /\ PlotIdle

\* 14_dependency_parsing_en.py, 15_dependency_parsing_zh.py
RunDependencyParsing ==
    /\ stage = "doc"
    /\ corpus = "dep"
    /\ response_xml' = dependency_parsing(nlp_doc)
    /\ stage' = "annotated"
    /\ UNCHANGED <<corpus, nlp_doc, metric>>
    /\ UNCHANGED <<sortVars, aggVars, batchVars, chartVars, corpusVars, plotVars>>

\* 6_pos_tagging_en.py, 7_pos_tagging_zh.py
RunPosTagging ==
    /\ stage = "doc"
    /\ corpus \in {"pos_en", "pos_zh"}
    /\ response_xml' = pos_tagging(nlp_doc)
    /\ stage' = "annotated"
    /\ UNCHANGED <<corpus, nlp_doc, metric>>
    /\ UNCHANGED <<sortVars, aggVars, batchVars, chartVars, corpusVars, plotVars>>

\* A scorer reads the response from the file and returns its value.
Score(name, value) ==
    /\ stage \in {"annotated", "malformed"}
    /\ metric' = value
    /\ stage' = name
    /\ UNCHANGED <<corpus, nlp_doc, response_xml>>
    /\ UNCHANGED <<sortVars, aggVars, batchVars, chartVars, corpusVars, plotVars>>

ScorePluralEn ==
    /\ corpus = "pos_en"
    /\ Score("plural_en", calculate_plural_noun_frequency_per_response_en(response_xml))

ScorePluralZh ==
    /\ corpus = "pos_zh"
    /\ Score("plural_zh", calculate_plural_noun_frequency_per_response_zh(response_xml))

ScorePassiveEn ==
    /\ corpus = "pos_en"
    /\ Score("passive_en", calculate_passive_frequency_per_response_en(response_xml))

ScorePassiveZh ==
    /\ corpus = "pos_zh"
    /\ Score("passive_zh", calculate_passive_frequency_per_response_zh(response_xml))

ScoreDistance ==
    /\ corpus = "dep"
    /\ Score("distance", response_avg_distance(response_xml))

ScoreDirection ==
    /\ corpus = "dep"
    /\ Score("direction", dependency_proportions(response_xml))

\* 8_pos_tag_counting.py, then the relative frequencies of 9_calculate_pos_statistics.py
ScorePosFrequency ==
    /\ corpus \in {"pos_en", "pos_zh"}
    /\ Score("pos_frequency", pos_relative_frequencies(count_pos_tags(response_xml)))

NextScore ==
    \/ RunDependencyParsing
    \/ RunPosTagging
    \/ ScorePluralEn
    \/ ScorePluralZh
    \/ ScorePassiveEn
    \/ ScorePassiveZh
    \/ ScoreDistance
    \/ ScoreDirection
    \/ ScorePosFrequency

SpecScore == InitScore /\ [][NextScore]_vars

-----------------------------------------------------------------------------
(* The scorers on a file that was not left as the annotator wrote it: one    *)
(* <t> element lacks an attribute or its text.                               *)

\* The largest number of tokens of a Response that lacks an attribute.
MaxMalformedTokens == 2

\* elem without the attribute (or the text) attr.
Without(elem, attr) == [a \in DOMAIN elem \ {attr} |-> elem[a]]

InitMalformed ==
    /\ corpus \in Corpora
    /\ nlp_doc \in {d \in Docs(corpus) : Len(Flatten(d)) <= MaxMalformedTokens}
    /\ stage = "doc"
    /\ response_xml = <<>>
    /\ metric = Zero
    /\ SortIdle
    /\ AggIdle
    /\ BatchIdle
    /\ ChartIdle
    /\ CorpusIdle
    /\ PlotIdle

\* The file the scorer will parse has a <t> without one of its attributes.
LoseAttribute ==
    /\ stage = "annotated"
    /\ \E si \in DOMAIN response_xml :
         \E ti \in DOMAIN response_xml[si] :
           \E attr \in DOMAIN response_xml[si][ti] :
             response_xml' = [response_xml EXCEPT ![si][ti] = Without(@, attr)]
    /\ stage' = "malformed"
    /\ UNCHANGED <<corpus, nlp_doc, metric>>
    /\ UNCHANGED <<sortVars, aggVars, batchVars, chartVars, corpusVars, plotVars>>

NextMalformed ==
    \/ NextScore
    \/ LoseAttribute

SpecMalformed == InitMalformed /\ [][NextMalformed]_vars

-----------------------------------------------------------------------------
(* The file-level aggregators: from a File's MetricSamples to its mean,      *)
(* population standard deviation and coefficient of variation.  The values   *)
(* are those the code holds before it rounds them for output.                *)

\* process_xml_file of 10_, 11_, 12_ and 13_: (count, mean, std, cv) of
\* response_frequencies.
FrequencyStatistics(response_frequencies) ==
    LET average_frequency ==
            IF response_frequencies # <<>> THEN np_mean(response_frequencies) ELSE Zero
        std_dev == IF response_frequencies # <<>> THEN np_std(response_frequencies) ELSE Zero
        cv == IF GreaterThanZero(average_frequency)
              THEN StdOverMeanTimes100(std_dev, average_frequency)
              ELSE Zero
    IN  [count |-> Len(response_frequencies), mean |-> average_frequency,
         std_dev |-> std_dev, cv |-> cv]

\* calculate_distance of 16_calculate_dependency_distance.py, from the
\* per-response averages on.
DistanceStatistics(response_avg_distances) ==
    LET overall_avg_distance ==
            IF response_avg_distances # <<>> THEN np_mean(response_avg_distances) ELSE Zero
        std_dev == IF response_avg_distances # <<>> THEN np_std(response_avg_distances) ELSE Zero
        cv == IF NotEqualZero(overall_avg_distance)
              THEN StdOverMeanTimes100(std_dev, overall_avg_distance)
              ELSE Zero
    IN  [mean |-> overall_avg_distance, std_dev |-> std_dev, cv |-> cv]

\* The statistics of one list of proportions in process_xml_files of
\* 17_calculate_dependency_direction.py: np.mean and np.std are called on the
\* list as it is.
ProportionStatistics(proportions) ==
    LET avg == np_mean(proportions)
        std_dev == np_std(proportions)
        cv == IF GreaterThanZero(avg) THEN StdOverMeanTimes100(std_dev, avg) ELSE Zero
    IN  [mean |-> avg, std_dev |-> std_dev, cv |-> cv]

\* data[:1000] of calculate_statistics.
RecordLimit == 1000

\* The statistics of one list of values in calculate_statistics of
\* 20_calculate_perplexity_loss_statistics.py.
PerplexityLossStatistics(values, count) ==
    LET avg == IF count > 0 THEN np_mean(values) ELSE Zero
        std_dev == IF count > 0 THEN np_std(values) ELSE Zero
        cv == IF GreaterThanZero(avg) THEN StdOverMeanTimes100(std_dev, avg) ELSE Zero
    IN  [mean |-> avg, std_dev |-> std_dev, cv |-> cv]

\* The statistics of one tag's frequencies in calculate_stats of
\* 9_calculate_pos_statistics.py.
TagStatistics(frequencies) ==
    [mean |-> IF frequencies # <<>> THEN np_mean(frequencies) ELSE Zero,
     std_dev |-> IF frequencies # <<>> THEN np_std(frequencies) ELSE Zero,
     cv |-> IF frequencies # <<>> /\ GreaterThanZero(np_mean(frequencies))
            THEN StdOverMeanTimes100(np_std(frequencies), np_mean(frequencies))
            ELSE Zero]

\* The metric variants: which script aggregates the File.
FrequencyVariants == {"plural_en", "plural_zh", "passive_en", "passive_zh"}
Variants == FrequencyVariants \cup {"distance", "direction", "perplexity_loss", "pos_frequency"}

\* The entries of a perplexity file of 19_perplexity_qwen.py: perplexity =
\* exp(loss), kept here to whole numbers.
PerplexityEntries ==
    {[loss |-> Whole(0), perplexity |-> Whole(1)],
     [loss |-> Whole(1), perplexity |-> Whole(3)],
     [loss |-> Whole(2), perplexity |-> Whole(7)]}

\* The tokens of the Responses of a File of the variant: an aggregator sees
\* of a Response only the number its scorer returns, so a few tokens of the
\* lexicon, those the scorer tells apart, give the Files their values.
SampleLexicon(v) ==
    CASE v = "plural_en" -> {t \in EnLexicon : t.tag \in {"NN", "NNS", "VBD"}}
      [] v = "passive_en" -> {t \in EnLexicon : t.tag \in {"NN", "VBD", "VBN"}}
      [] v = "plural_zh" ->
            {t \in ZhLexicon : t.text \in {<<"xue", "sheng", "men">>, <<"shu">>, <<"xie">>}}
      [] v = "passive_zh" -> {t \in ZhLexicon : t.text \in {<<"bei">>, <<"shu">>}}
      [] v = "pos_frequency" -> {t \in EnLexicon : t.tag \in {"NN", "VBD"}}

\* What one Response contributes to a File of the variant: the value its scorer
\* returns (for the POS statistics, the pos_counts of 8_pos_tag_counting.py).
SampleValues(v) ==
    CASE v = "plural_en" ->
            {calculate_plural_noun_frequency_per_response_en(pos_tagging(d)) :
                d \in DocsOver(SampleLexicon(v), MaxTokens)}
      [] v = "plural_zh" ->
            {calculate_plural_noun_frequency_per_response_zh(pos_tagging(d)) :
                d \in DocsOver(SampleLexicon(v), MaxTokens)}
      [] v = "passive_en" ->
            {calculate_passive_frequency_per_response_en(pos_tagging(d)) :
                d \in DocsOver(SampleLexicon(v), MaxTokens)}
      [] v = "passive_zh" ->
            {calculate_passive_frequency_per_response_zh(pos_tagging(d)) :
                d \in DocsOver(SampleLexicon(v), MaxTokens)}
      [] v = "distance" ->
            {response_avg_distance(dependency_parsing(d)) : d \in ParsedDocs(MaxTokens)}
      [] v = "direction" ->
            {dependency_proportions(dependency_parsing(d)) : d \in ParsedDocs(MaxTokens)}
      [] v = "perplexity_loss" -> PerplexityEntries
      [] v = "pos_frequency" ->
            {count_pos_tags(pos_tagging(d)) : d \in DocsOver(SampleLexicon(v), MaxCounted)}

\* The Files of at most n Responses.
FilesOf(S, n) == UNION {[1..len -> S] : len \in 0..n}

\* A File of three Responses whose scorer returned 0.2, 0.4 and 0.6 (of five
\* nouns one, two and three plural; of five sentences one, two and three
\* passive; five tokens of total distance one, two and three).
ThreeResponseFile == <<Frac(1, 5), Frac(2, 5), Frac(3, 5)>>

\* A perplexity file of one entry more than calculate_statistics reads: the
\* json array of 19_perplexity_qwen.py has one entry per scored line of the
\* response file, whatever their number.  The last entry has the perplexity
\* 1002 = exp(6.91), its loss kept to the whole number 7.
LongPerplexityFile ==
    [i \in 1..(RecordLimit + 1) |->
        IF i <= RecordLimit
        THEN [loss |-> Whole(0), perplexity |-> Whole(1)]
        ELSE [loss |-> Whole(7), perplexity |-> Whole(1002)]]

\* The Files of the variant that are longer, or finer, than FilesOf gives.
NamedFiles(v) ==
    CASE v \in FrequencyVariants \cup {"distance"} -> {ThreeResponseFile}
      [] v = "perplexity_loss" -> {LongPerplexityFile}
      [] OTHER -> {}

InitAgg ==
    /\ variant \in Variants
    /\ samples \in FilesOf(SampleValues(variant), MaxResponses) \cup NamedFiles(variant)
    /\ phase = "parsed"
    /\ stats = <<>>
    /\ SortIdle
    /\ ScoreIdle
    /\ BatchIdle
    /\ ChartIdle
    /\ CorpusIdle
    /\ PlotIdle

\* The file has been reduced to its statistics.
Aggregated(result) ==
    /\ phase = "parsed"
    /\ stats' = result
    /\ phase' = "aggregated"
    /\ UNCHANGED <<variant, samples>>
    /\ UNCHANGED <<sortVars, scoreVars, batchVars, chartVars, corpusVars, plotVars>>

\* process_xml_file of 10_, 11_, 12_ and 13_
process_xml_file ==
    /\ variant \in FrequencyVariants
    /\ Aggregated(FrequencyStatistics(samples))

\* calculate_distance of 16_calculate_dependency_distance.py
calculate_distance ==
    /\ variant = "distance"
    /\ Aggregated(DistanceStatistics(samples))

\* The loop body of process_xml_files of 17_calculate_dependency_direction.py
process_direction_file ==
    /\ variant = "direction"
    /\ LET before_proportions == [i \in DOMAIN samples |-> samples[i][1]]
           after_proportions == [i \in DOMAIN samples |-> samples[i][2]]
       IN  Aggregated([before |-> ProportionStatistics(before_proportions),
                       after |-> ProportionStatistics(after_proportions)])

\* min(a, b)
Min(a, b) == IF a < b THEN a ELSE b

\* The loop body of calculate_statistics of 20_calculate_perplexity_loss_statistics.py
process_perplexity_file ==
    /\ variant = "perplexity_loss"
    /\ LET data == SubSeq(samples, 1, Min(Len(samples), RecordLimit))
           perplexities == [i \in DOMAIN data |-> data[i].perplexity]
           losses == [i \in DOMAIN data |-> data[i].loss]
           count == Min(Len(samples), RecordLimit)
       IN  Aggregated([perplexity |-> PerplexityLossStatistics(perplexities, count),
                       loss |-> PerplexityLossStatistics(losses, count)])

\* The loop body of calculate_stats of 9_calculate_pos_statistics.py
calculate_stats ==
    /\ variant = "pos_frequency"
    /\ LET frequencies(pos) ==
               [i \in DOMAIN samples |-> pos_relative_frequencies(samples[i])[pos]]
       IN  Aggregated([pos \in PosTags |-> TagStatistics(frequencies(pos))])

NextAgg ==
    \/ process_xml_file
    \/ calculate_distance
    \/ process_direction_file
    \/ process_perplexity_file
    \/ calculate_stats

SpecAgg == InitAgg /\ [][NextAgg]_vars

-----------------------------------------------------------------------------
(* The batch loop over the Files of a directory, File by File: what is on    *)
(* disk and on the terminal when the run ends.                               *)

\* The largest number of Files of the directory of a batch run.
MaxBatchFiles == 3

\* How the loop finds a File: with Responses, with none, not well-formed, or
\* gone since os.listdir.
Conditions == {"readable", "no_responses", "unparsable", "missing"}

\* The name of the i-th File the loop visits.
BatchName(i, ext) == SplitName(en_en, Str(i), ext)

\* The batch loops modelled: process_all_files of 10_ (as of 11_, 12_, 13_),
\* process_xml_files of 16_ (as of 17_), calculate_statistics of 20_.
BatchScripts == {"10", "16", "20"}

InitBatch ==
    /\ script \in BatchScripts
    /\ \E len \in 0..MaxBatchFiles : \E conds \in [1..len -> Conditions] :
         input_dir = [i \in 1..len |->
                         [name |-> BatchName(i, IF script = "20" THEN DotJson ELSE DotXml),
                          condition |-> conds[i]]]
    /\ cursor = 1
    /\ results = <<>>
    /\ output_csv = <<>>
    /\ output_json = <<>>
    /\ stdout = <<>>
    /\ outcome = "running"
    /\ SortIdle
    /\ ScoreIdle
    /\ AggIdle
    /\ ChartIdle
    /\ CorpusIdle
    /\ PlotIdle

\* etree.parse(file_path) / open(input_file) and json.load(f): the exception
\* the call raises on the File, "" if it returns.
ParseError(file) ==
    CASE file.condition = "missing" ->
            IF script = "20" THEN "FileNotFoundError" ELSE "OSError"
      [] file.condition = "unparsable" ->
            IF script = "20" THEN "JSONDecodeError" ELSE "XMLSyntaxError"
      [] OTHER -> ""

\* One pass of the loop body over the File at the cursor; no exception is caught.
ProcessFile(rows_in_loop) ==
    /\ outcome = "running"
    /\ cursor <= Len(input_dir)
    /\ LET file == input_dir[cursor]
       IN  IF ParseError(file) # ""
           THEN /\ outcome' = ParseError(file)
                /\ UNCHANGED <<cursor, results, output_csv, stdout>>
           ELSE /\ results' = Append(results, file.name)
                /\ output_csv' = IF rows_in_loop THEN Append(output_csv, file.name) ELSE output_csv
                /\ stdout' = Append(stdout, [line |-> "Processed", file |-> file.name])
                /\ cursor' = cursor + 1
                /\ UNCHANGED outcome
    /\ UNCHANGED <<script, input_dir, output_json>>
    /\ UNCHANGED <<sortVars, scoreVars, aggVars, chartVars, corpusVars, plotVars>>

\* The loop body of process_all_files of 10_plural_noun_frequency_en.py
process_all_files_body ==
    /\ script = "10"
    /\ ProcessFile(TRUE)

\* The loop body of process_xml_files of 16_calculate_dependency_distance.py
process_xml_files_body ==
    /\ script = "16"
    /\ ProcessFile(TRUE)

\* The loop body of calculate_statistics of 20_calculate_perplexity_loss_statistics.py
calculate_statistics_body ==
    /\ script = "20"
    /\ ProcessFile(FALSE)

\* After the loop: 16_ dumps results to the JSON, 20_ writes the CSV rows and
\* dumps the JSON, 10_ only prints where the CSV is.
save_results ==
    /\ outcome = "running"
    /\ cursor > Len(input_dir)
    /\ output_json' = IF script \in {"16", "20"} THEN results ELSE output_json
    /\ output_csv' = IF script = "20" THEN results ELSE output_csv
    /\ stdout' = IF script = "16" THEN stdout
                 ELSE Append(stdout, [line |-> "Results saved", file |-> <<>>])
    /\ outcome' = "completed"
    /\ UNCHANGED <<script, input_dir, cursor, results>>
    /\ UNCHANGED <<sortVars, scoreVars, aggVars, chartVars, corpusVars, plotVars>>

NextBatch ==
    \/ process_all_files_body
    \/ process_xml_files_body
    \/ calculate_statistics_body
    \/ save_results

SpecBatch == InitBatch /\ [][NextBatch]_vars

-----------------------------------------------------------------------------
(* The visualisation scripts on a list of names: sort, x-axis labels, bar     *)
(* colours.  21_text_statistics_visualization.py and draft.py list a          *)
(* directory of .json files, 23_dependency_distance_visualization.py reads    *)
(* the names from the CSV of 16_.                                             *)

\* The largest number of names given to a visualisation script.
MaxChartFiles == 3

VizScripts == {"21", "23", "draft"}

\* Names of split files, of merged files, and names that are neither.
ChartNamePool(ext) ==
    {SplitName(g, <<"2">>, ext) : g \in {en_en, zh_en}}
        \cup {MergedName(g, ext) : g \in {en_en, zh_en}}
        \cup {Prefix \o <<"n", "o", "t", "e", "s">> \o ext}

\* custom_sort of 21_text_statistics_visualization.py: in merged mode a match
\* gives an int and no match falls through to the tuple (999, 999).
custom_sort_21(file_name, merged) ==
    IF merged
    THEN IF GroupMatches(file_name) # {}
         THEN LET i == FirstOf(GroupMatches(file_name))
              IN  IntKey(order(SubSeq(file_name, i, i + 4)))
         ELSE TupleKey(IntKey(999), IntKey(999))
    ELSE IF SplitMatches(file_name) # {}
         THEN LET i == FirstOf(SplitMatches(file_name))
                  lang_group == SubSeq(file_name, i, i + 4)
                  num == IntOf(DigitsFrom(file_name, i + 6))
              IN  TupleKey(IntKey(num), IntKey(order(lang_group)))
         ELSE TupleKey(IntKey(999), IntKey(999))

\* s.startswith(prefix)
StartsWith(str, prefix) == Len(str) >= Len(prefix) /\ SubSeq(str, 1, Len(prefix)) = prefix

\* re.match(rf"{file_prefix}(en|zh)_(en|zh)\.json", file_name) in merged mode,
\* re.match(rf"{file_prefix}(en|zh)_(en|zh)_(\d+)\.json", file_name) otherwise.
DraftMatch(file_name, merged) ==
    LET at == Len(Prefix) + 1
    IN  /\ StartsWith(file_name, Prefix)
        /\ Len(file_name) >= at + 4
        /\ SubSeq(file_name, at, at + 4) \in LangGroups
        /\ IF merged
           THEN StartsWith(SubSeq(file_name, at + 5, Len(file_name)), DotJson)
           ELSE /\ Len(file_name) >= at + 6
                /\ file_name[at + 5] = "_"
                /\ file_name[at + 6] \in DigitChars
                /\ LET digits == DigitsFrom(file_name, at + 6)
                   IN  StartsWith(SubSeq(file_name, at + 6 + Len(digits), Len(file_name)), DotJson)

\* custom_sort of draft.py, which logs a warning for a name that does not match.
custom_sort_draft(file_name, merged) ==
    LET at == Len(Prefix) + 1
    IN  IF DraftMatch(file_name, merged)
        THEN IF merged
             THEN IntKey(order(SubSeq(file_name, at, at + 4)))
             ELSE TupleKey(IntKey(order(SubSeq(file_name, at, at + 4))),
                           IntKey(IntOf(DigitsFrom(file_name, at + 6))))
        ELSE TupleKey(IntKey(999), IntKey(999))

\* The keys the script's sort computes.
ChartKeys(names) ==
    [i \in DOMAIN names |->
        CASE viz = "21" -> custom_sort_21(names[i], chart_merged)
          [] viz = "23" -> custom_sort(names[i], chart_merged)
          [] viz = "draft" -> custom_sort_draft(names[i], chart_merged)]

\* sorted() compares an int with a tuple: '<' not supported.
MixedKeys(keys) == \E i, j \in DOMAIN keys : keys[i].t # keys[j].t

InitChart ==
    /\ viz \in VizScripts
    /\ chart_merged \in BOOLEAN
    /\ chart_input \in DistinctSeqs(ChartNamePool(IF viz = "23" THEN DotXml ELSE DotJson),
                                    MaxChartFiles)
    /\ chart_pc = "start"
    /\ sorted_names = <<>>
    /\ labels = <<>>
    /\ raised = ""
    /\ warnings = {}
    /\ SortIdle
    /\ ScoreIdle
    /\ AggIdle
    /\ BatchIdle
    /\ CorpusIdle
    /\ PlotIdle

\* The sort of the names: sorted(..., key=custom_sort) in main of 21_,
\* data.sort in read_csv_data of 23_, sorted in read_frequency_data of draft.py
\* (inside a try whose handler logs the error and returns no names).
sort_names ==
    /\ chart_pc = "start"
    /\ raised = ""
    /\ LET names == IF viz = "draft"
                    THEN SelectSeq(chart_input, LAMBDA f : StartsWith(f, Prefix))
                    ELSE chart_input
           keys == ChartKeys(names)
       IN  /\ warnings' = IF viz = "draft"
                          THEN {names[i] : i \in {j \in DOMAIN names :
                                                     ~DraftMatch(names[j], chart_merged)}}
                          ELSE warnings
           /\ IF MixedKeys(keys)
              THEN /\ raised' = IF viz = "draft" THEN "" ELSE "TypeError"
                   /\ sorted_names' = <<>>
              ELSE /\ raised' = ""
                   /\ sorted_names' = Sorted(names, keys)
    /\ chart_pc' = "sorted"
    /\ UNCHANGED <<viz, chart_merged, chart_input, labels>>
    /\ UNCHANGED <<sortVars, scoreVars, aggVars, batchVars, corpusVars, plotVars>>

\* os.path.splitext(filename)[0] of a name ending in .json
StripExt(name) == SubSeq(name, 1, Len(name) - Len(DotJson))

\* Where re.search finds file_prefix followed by the pattern of the mode, in
\* extract_file_name of draft.py: the positions of the language group.
PrefixedMatches(name, merged) ==
    {i \in (IF merged THEN GroupMatches(name) ELSE SplitMatches(name)) :
        i > Len(Prefix) /\ SubSeq(name, i - Len(Prefix), i - 1) = Prefix}

\* re.search(pattern, name) finds nothing, pattern being that of the mode.
NoMatch(name, merged) ==
    IF merged THEN GroupMatches(name) = {} ELSE SplitMatches(name) = {}

\* re.search(pattern, name).group(): the text matched, for a name that matches.
MatchedText(name, merged) ==
    IF merged
    THEN LET i == FirstOf(GroupMatches(name)) IN SubSeq(name, i, i + 4)
    ELSE LET i == FirstOf(SplitMatches(name))
         IN  SubSeq(name, i, i + 5) \o DigitsFrom(name, i + 6)

\* The x-axis labels: simplify_filename of 21_, the first line of plot_bar_chart
\* of 23_, extract_file_name of draft.py.
make_labels ==
    /\ chart_pc = "sorted"
    /\ raised = ""
    /\ CASE viz = "21" ->
              \* .group() of None in merged mode, "" in separate mode
              IF chart_merged /\ \E i \in DOMAIN sorted_names : NoMatch(sorted_names[i], TRUE)
              THEN raised' = "AttributeError" /\ UNCHANGED <<labels, warnings>>
              ELSE /\ labels' = [i \in DOMAIN sorted_names |->
                                    IF NoMatch(sorted_names[i], chart_merged) THEN <<>>
                                    ELSE MatchedText(sorted_names[i], chart_merged)]
                   /\ UNCHANGED <<raised, warnings>>
         [] viz = "23" ->
              IF \E i \in DOMAIN sorted_names : NoMatch(sorted_names[i], chart_merged)
              THEN raised' = "AttributeError" /\ UNCHANGED <<labels, warnings>>
              ELSE /\ labels' = [i \in DOMAIN sorted_names |->
                                    MatchedText(sorted_names[i], chart_merged)]
                   /\ UNCHANGED <<raised, warnings>>
         [] viz = "draft" ->
              LET stems == [i \in DOMAIN sorted_names |-> StripExt(sorted_names[i])]
                  found(stem) == PrefixedMatches(stem, chart_merged) # {}
                  group1(stem) == LET i == FirstOf(PrefixedMatches(stem, chart_merged))
                                  IN  SubSeq(stem, i, i + 4)
              IN  /\ labels' = [i \in DOMAIN stems |->
                                   IF found(stems[i]) THEN group1(stems[i]) ELSE stems[i]]
                  /\ warnings' = warnings \cup
                                   {sorted_names[i] : i \in {j \in DOMAIN stems : ~found(stems[j])}}
                  /\ UNCHANGED raised
    /\ chart_pc' = "labelled"
    /\ UNCHANGED <<viz, chart_merged, chart_input, sorted_names>>
    /\ UNCHANGED <<sortVars, scoreVars, aggVars, batchVars, corpusVars, plotVars>>

\* The bar colours: color_mapping[re.search(r"(en_en|zh_en|en_zh|zh_zh)", name).group()]
\* for every label in plot_bar_chart of 21_ and 23_; draft.py colours by POS tag.
plot_bar_chart ==
    /\ chart_pc = "labelled"
    /\ raised = ""
    /\ raised' = IF viz \in {"21", "23"} /\ \E i \in DOMAIN labels : NoMatch(labels[i], TRUE)
                 THEN "AttributeError"
                 ELSE ""
    /\ chart_pc' = "rendered"
    /\ UNCHANGED <<viz, chart_merged, chart_input, sorted_names, labels, warnings>>
    /\ UNCHANGED <<sortVars, scoreVars, aggVars, batchVars, corpusVars, plotVars>>

NextChart ==
    \/ sort_names
    \/ make_labels
    \/ plot_bar_chart

SpecChart == InitChart /\ [][NextChart]_vars

-----------------------------------------------------------------------------
(* The records of a batch run: what process_xml_files of 16_ and 17_ and      *)
(* calculate_statistics of 20_ write for each File, as the CSV and the JSON   *)
(* hold it.  A number is written as the text of its digits.                   *)

\* The digits of n, zero-filled on the left to the given width.
ZeroFilled(n, width) ==
    IF Len(Str(n)) >= width THEN Str(n)
    ELSE [i \in 1..(width - Len(Str(n))) |-> "0"] \o Str(n)

\* A digit string without its trailing zeros, the first digit kept.
RECURSIVE StripZeros(_)
StripZeros(ds) ==
    IF Len(ds) > 1 /\ ds[Len(ds)] = "0" THEN StripZeros(SubSeq(ds, 1, Len(ds) - 1)) ELSE ds

\* f"{x:.4f}" and f"{x:.2f}": always the given number of decimals.
FormatFixed(x, digits) ==
    IF x.k = "nan" THEN <<"n", "a", "n">>
    ELSE LET r == Rounded(x, digits)
         IN  Str(r \div PowerOfTen(digits)) \o <<".">> \o ZeroFilled(r % PowerOfTen(digits), digits)

\* str() and repr() of round(x, digits): of the int 0 "0", of a float the
\* shortest decimal that reads back the same, with one decimal at least.
StrRounded(x, digits, is_int) ==
    IF is_int THEN <<"0">>
    ELSE IF x.k = "nan" THEN <<"n", "a", "n">>
    ELSE LET r == Rounded(x, digits)
         IN  Str(r \div PowerOfTen(digits)) \o <<".">>
                 \o StripZeros(ZeroFilled(r % PowerOfTen(digits), digits))

Percent == <<"%">>

\* The cells of one statistic in the CSV row of process_xml_files:
\* f"{avg:.4f}", f"{std_dev:.4f}", f"{cv:.2f}%".
CsvCells(st) ==
    <<FormatFixed(st.mean, 4), FormatFixed(st.std_dev, 4), FormatFixed(st.cv, 2) \o Percent>>

\* The values of one statistic in the dict appended to results:
\* round(avg, 4), round(std_dev, 4), f"{round(cv, 2)}%".  stat_is_int and
\* cv_is_int say that the guard of the statistic gave the int 0.
JsonValues(st, stat_is_int, cv_is_int) ==
    <<StrRounded(st.mean, 4, stat_is_int), StrRounded(st.std_dev, 4, stat_is_int),
      StrRounded(st.cv, 2, cv_is_int) \o Percent>>

RecordScripts == {"16", "17", "20"}

\* The per-response values of the Files of a directory, by script: average
\* dependency distances, (before, after) proportions, perplexity entries.
RecordSamples(s) ==
    CASE s = "16" -> {<<>>, <<Whole(0)>>, <<Whole(1), Whole(2)>>,
                      <<Frac(74, 125), Frac(176, 125)>>, ThreeResponseFile}
      [] s = "17" -> {<<>>, << <<One, Zero>> >>, << <<Frac(1, 2), Frac(1, 2)>>, <<One, Zero>> >>,
                      << <<Frac(1, 5), Frac(4, 5)>>, <<Frac(3, 5), Frac(2, 5)>> >>}
      [] s = "20" -> FilesOf(PerplexityEntries, 2)

InitRecords ==
    /\ script \in RecordScripts
    /\ \E len \in 0..MaxBatchFiles :
         \E conds \in [1..len -> {"readable", "unparsable"}] :
           \E contents \in [1..len -> RecordSamples(script)] :
             input_dir = [i \in 1..len |->
                             [name |-> BatchName(i, IF script = "20" THEN DotJson ELSE DotXml),
                              condition |-> conds[i],
                              samples |-> IF conds[i] = "readable" THEN contents[i] ELSE <<>>]]
    /\ cursor = 1
    /\ results = <<>>
    /\ output_csv = <<>>
    /\ output_json = <<>>
    /\ stdout = <<>>
    /\ outcome = "running"
    /\ SortIdle
    /\ ScoreIdle
    /\ AggIdle
    /\ ChartIdle
    /\ CorpusIdle
    /\ PlotIdle

\* The CSV row and the results dict of a File in process_xml_files of
\* 16_calculate_dependency_distance.py.
DistanceRecord(file) ==
    LET st == DistanceStatistics(file.samples)
    IN  [csv |-> [file |-> file.name, cells |-> CsvCells(st)],
         json |-> [file |-> file.name,
                   values |-> JsonValues(st, file.samples = <<>>, ~NotEqualZero(st.mean))]]

\* The CSV row and the results dict of a File in process_xml_files of
\* 17_calculate_dependency_direction.py.
DirectionRecord(file) ==
    LET before == ProportionStatistics([i \in DOMAIN file.samples |-> file.samples[i][1]])
        after == ProportionStatistics([i \in DOMAIN file.samples |-> file.samples[i][2]])
    IN  [csv |-> [file |-> file.name, cells |-> CsvCells(before) \o CsvCells(after)],
         json |-> [file |-> file.name,
                   values |-> JsonValues(before, FALSE, ~GreaterThanZero(before.mean))
                                \o JsonValues(after, FALSE, ~GreaterThanZero(after.mean))]]

\* The results dict of a File in calculate_statistics of
\* 20_calculate_perplexity_loss_statistics.py; csv.DictWriter writes str() of
\* its values, so the CSV row has the same texts.
PerplexityRecord(file) ==
    LET data == SubSeq(file.samples, 1, Min(Len(file.samples), RecordLimit))
        count == Min(Len(file.samples), RecordLimit)
        perplexity == PerplexityLossStatistics([i \in DOMAIN data |-> data[i].perplexity], count)
        loss == PerplexityLossStatistics([i \in DOMAIN data |-> data[i].loss], count)
        values == JsonValues(perplexity, count = 0, ~GreaterThanZero(perplexity.mean))
                    \o JsonValues(loss, count = 0, ~GreaterThanZero(loss.mean))
    IN  [csv |-> [file |-> file.name, cells |-> values],
         json |-> [file |-> file.name, values |-> values]]

\* One pass of the loop body over the File at the cursor: etree.parse or
\* json.load raises on a File that is not well-formed, and nothing catches it.
WriteRecord(record, row_in_loop, prints) ==
    /\ outcome = "running"
    /\ cursor <= Len(input_dir)
    /\ LET file == input_dir[cursor]
       IN  IF ParseError(file) # ""
           THEN /\ outcome' = ParseError(file)
                /\ UNCHANGED <<cursor, results, output_csv, stdout>>
           ELSE /\ results' = Append(results, record.json)
                /\ output_csv' = IF row_in_loop THEN Append(output_csv, record.csv) ELSE output_csv
                /\ stdout' = IF prints
                             THEN Append(stdout, [line |-> "Processed", file |-> file.name])
                             ELSE stdout
                /\ cursor' = cursor + 1
                /\ UNCHANGED outcome
    /\ UNCHANGED <<script, input_dir, output_json>>
    /\ UNCHANGED <<sortVars, scoreVars, aggVars, chartVars, corpusVars, plotVars>>

\* The loop body of process_xml_files of 16_calculate_dependency_distance.py
write_distance_record ==
    /\ script = "16"
    /\ WriteRecord(DistanceRecord(input_dir[cursor]), TRUE, TRUE)

\* The loop body of process_xml_files of 17_calculate_dependency_direction.py
write_direction_record ==
    /\ script = "17"
    /\ WriteRecord(DirectionRecord(input_dir[cursor]), TRUE, FALSE)

\* The loop body of calculate_statistics of 20_calculate_perplexity_loss_statistics.py
append_perplexity_record ==
    /\ script = "20"
    /\ WriteRecord(PerplexityRecord(input_dir[cursor]), FALSE, TRUE)

\* After the loop: json.dump(results), and in 20_ writer.writerows(results)
\* before it.
dump_records ==
    /\ outcome = "running"
    /\ cursor > Len(input_dir)
    /\ output_json' = results
    /\ output_csv' = IF script = "20"
                     THEN [i \in DOMAIN results |->
                              [file |-> results[i].file, cells |-> results[i].values]]
                     ELSE output_csv
    /\ stdout' = IF script = "20" THEN Append(stdout, [line |-> "Results saved", file |-> <<>>])
                 ELSE stdout
    /\ outcome' = "completed"
    /\ UNCHANGED <<script, input_dir, cursor, results>>
    /\ UNCHANGED <<sortVars, scoreVars, aggVars, chartVars, corpusVars, plotVars>>

NextRecords ==
    \/ write_distance_record
    \/ write_direction_record
    \/ append_perplexity_record
    \/ dump_records

SpecRecords == InitRecords /\ [][NextRecords]_vars

-----------------------------------------------------------------------------
(* The corpus files of one language pair: the raw response files, the file    *)
(* 2_merge_xml.py merges them into, the files 3_formalize_xml.py rewrites,    *)
(* the text file 4_extract_text_from_xml_responses.py writes from the merged  *)
(* file, and the results 19_perplexity_qwen.py computes from the text file.   *)
(* A <response> element is its id and its text, a text a sequence of          *)
(* characters.                                                                *)

\* The largest number of Responses of a raw file shorter than a batch.
MaxRawResponses == 2

\* range(1, 11) of merge_xml_files and formalize_xml_files; the prompt file has
\* as many prompts.
PromptFiles == 10

\* batch_size of calculate_perplexity_for_file
batch_size == 100

\* max_responses of extract_text_from_xml
max_responses == 1000

Newline == "\n"
Whitespace == {" ", Newline}

\* str.strip()
strip(text) ==
    LET inked == {i \in DOMAIN text : text[i] \notin Whitespace}
    IN  IF inked = {} THEN <<>>
        ELSE SubSeq(text, CHOOSE i \in inked : \A j \in inked : i <= j,
                          CHOOSE i \in inked : \A j \in inked : i >= j)

\* The lines f.readlines() gives for what f.write(text + "\n") wrote, each
\* without its line end.
RECURSIVE LinesOf(_)
LinesOf(text) ==
    LET breaks == {i \in DOMAIN text : text[i] = Newline}
    IN  IF breaks = {} THEN <<text>>
        ELSE LET b == CHOOSE i \in breaks : \A j \in breaks : i <= j
             IN  <<SubSeq(text, 1, b - 1)>> \o LinesOf(SubSeq(text, b + 1, Len(text)))

\* The sequences of seqs one after the other, joined by halves.
RECURSIVE Concat(_)
Concat(seqs) ==
    IF seqs = <<>> THEN <<>>
    ELSE IF Len(seqs) = 1 THEN seqs[1]
    ELSE LET half == Len(seqs) \div 2
         IN  Concat(SubSeq(seqs, 1, half)) \o Concat(SubSeq(seqs, half + 1, Len(seqs)))

\* The texts of a raw response as 1_generate_responses.py writes it,
\* f'  <response id="{j}">\n    {response_content}\n  </response>\n': a
\* one-line answer, an empty answer, an answer of two lines, and one with an
\* empty line between its two lines.
RawTexts ==
    {<<Newline, " ", "a", Newline, " ">>,
     <<Newline, " ", Newline, " ">>,
     <<Newline, " ", "a", Newline, "b", Newline, " ">>,
     <<Newline, " ", "a", Newline, Newline, "b", Newline, " ">>}

PlainText == <<Newline, " ", "a", Newline, " ">>

\* An id that leaves the prompt out: every file numbered as the first.
first_prompt_id(i, j) == <<"p">> \o Str(1) \o <<"-", "r">> \o Str(j)

\* f'p{i}-r{j}'
new_id(i, j) == <<"p">> \o Str(i) \o <<"-", "r">> \o Str(j)

\* The raw files: the first has n1 Responses and the others n2, numbered as
\* 1_generate_responses.py numbers them; the first and the last Response of
\* the first file and the first Response of the second have any of the texts,
\* every other Response the one-line text.
InitCorpus ==
    /\ \E n1, n2 \in (0..MaxRawResponses) \cup {batch_size} : \E t1, t2, t3 \in RawTexts :
         raw_files =
             [i \in 1..PromptFiles |->
                 [j \in 1..(IF i = 1 THEN n1 ELSE n2) |->
                     [id |-> Str(j),
                      text |-> IF i = 1 /\ j = 1 THEN t1
                               ELSE IF i = 1 /\ j = n1 THEN t2
                               ELSE IF i = 2 /\ j = 1 THEN t3
                               ELSE PlainText]]]
    /\ merged_xml = <<>>
    /\ formalized_xml = <<>>
    /\ text_lines = <<>>
    /\ perplexity_results = <<>>
    /\ corpus_pc = "raw"
    /\ SortIdle
    /\ ScoreIdle
    /\ AggIdle
    /\ BatchIdle
    /\ ChartIdle
    /\ PlotIdle

\* The loop body over the responses of raw file i, in merge_xml_files and in
\* formalize_xml_files: the text stripped if there is any, the id set anew.
Renumbered(i, responses) ==
    [j \in DOMAIN responses |->
        [id |-> new_id(i, j),
         text |-> IF responses[j].text # <<>> THEN strip(responses[j].text)
                  ELSE responses[j].text]]

\* merge_xml_files of 2_merge_xml.py
merge_xml_files ==
    /\ corpus_pc = "raw"
    /\ merged_xml' = Concat([i \in 1..PromptFiles |-> Renumbered(i, raw_files[i])])
    /\ corpus_pc' = "merged"
    /\ UNCHANGED <<raw_files, formalized_xml, text_lines, perplexity_results>>
    /\ UNCHANGED <<sortVars, scoreVars, aggVars, batchVars, chartVars, plotVars>>

\* formalize_xml_files of 3_formalize_xml.py
formalize_xml_files ==
    /\ corpus_pc = "raw"
    /\ formalized_xml' = [i \in 1..PromptFiles |-> Renumbered(i, raw_files[i])]
    /\ corpus_pc' = "formalized"
    /\ UNCHANGED <<raw_files, merged_xml, text_lines, perplexity_results>>
    /\ UNCHANGED <<sortVars, scoreVars, aggVars, batchVars, chartVars, plotVars>>

\* extract_text_from_xml of 4_extract_text_from_xml_responses.py on the merged
\* file: a response with no text writes nothing.
extract_text_from_xml ==
    /\ corpus_pc = "merged"
    /\ LET responses == SubSeq(merged_xml, 1, Min(Len(merged_xml), max_responses))
           written(response) ==
               IF response.text # <<>> THEN LinesOf(strip(response.text)) ELSE <<>>
       IN  text_lines' = Concat([k \in DOMAIN responses |-> written(responses[k])])
    /\ corpus_pc' = "extracted"
    /\ UNCHANGED <<raw_files, merged_xml, formalized_xml, perplexity_results>>
    /\ UNCHANGED <<sortVars, scoreVars, aggVars, batchVars, chartVars, plotVars>>

\* calculate_perplexity_for_file of 19_perplexity_qwen.py on the text file: a
\* prompt is written as its number in the prompt file, "" as 0.
calculate_perplexity_for_file ==
    /\ corpus_pc = "extracted"
    /\ LET prompt(line_num) ==
               LET prompt_index == ((line_num - 1) \div batch_size)
               IN  IF prompt_index < PromptFiles THEN prompt_index + 1 ELSE 0
           scored(line_num) ==
               LET response == strip(text_lines[line_num])
               IN  IF response # <<>>
                   THEN << [line_number |-> line_num, prompt |-> prompt(line_num),
                            response |-> response] >>
                   ELSE <<>>
       IN  perplexity_results' = Concat([k \in DOMAIN text_lines |-> scored(k)])
    /\ corpus_pc' = "scored"
    /\ UNCHANGED <<raw_files, merged_xml, formalized_xml, text_lines>>
    /\ UNCHANGED <<sortVars, scoreVars, aggVars, batchVars, chartVars, plotVars>>

NextCorpus ==
    \/ merge_xml_files
    \/ formalize_xml_files
    \/ extract_text_from_xml
    \/ calculate_perplexity_for_file

SpecCorpus == InitCorpus /\ [][NextCorpus]_vars

-----------------------------------------------------------------------------
(* The readers of the plots: read_xml_data of                                 *)
(* 23_dependency_distance_visualization.py reads the directory 16_ computes   *)
(* its statistics from, read_counting_data of 22_pos_frequency_visualization  *)
(* reads the directory 9_ computes its statistics from, read_frequency_data   *)
(* reads the files 9_ writes; draft.py has its own two readers.               *)

\* The largest number of files of a reader's input directory.
MaxPlotFiles == 2

Readers ==
    {"read_xml_data", "read_counting_data", "read_frequency_data",
     "draft_read_frequency_data", "draft_read_counting_data"}

\* The extension of the files the reader takes.
ReaderExt(r) == IF r = "read_xml_data" THEN DotXml ELSE DotJson

PlotNames(ext) ==
    {SplitName(g, <<"2">>, ext) : g \in {en_en, zh_en}} \cup {SplitName(en_en, <<"1", "0">>, ext)}

\* The <response> elements of a dependency-parsed file: 14_ and 15_ write them
\* from the parsed Docs.  A Response without a sentence, one of three tokens
\* that hang on the middle one, and one of two sentences.
PlotResponses ==
    LET man == <<"m", "a", "n">>
        saw == <<"s", "a", "w">>
        t(text, head) == [text |-> text, head |-> head]
        none == <<>>
        three == << <<t(man, 2), t(saw, 2), t(man, 2)>> >>
        five == << <<t(man, 2), t(saw, 2)>>, <<t(saw, 1), t(man, 1), t(man, 1)>> >>
    IN  [none |-> dependency_parsing(none),
         three |-> dependency_parsing(three),
         five |-> dependency_parsing(five)]

XmlContents ==
    {<<>>,
     <<PlotResponses.three>>,
     <<PlotResponses.three, PlotResponses.five>>,
     <<PlotResponses.five, PlotResponses.none>>}

\* The pos_counts of the responses of a counting file: 8_pos_tag_counting.py
\* writes them from the tagged Docs.  A Response without a token, "report was",
\* "reports report was", and "report $" whose "$" is tagged SYM.
PlotCounts ==
    LET tok(text) == CHOOSE t \in EnLexicon : t.text = text
        report == tok(<<"r", "e", "p", "o", "r", "t">>)
        reports == tok(<<"r", "e", "p", "o", "r", "t", "s">>)
        was == tok(<<"w", "a", "s">>)
        counts(doc) == count_pos_tags(pos_tagging(doc))
    IN  [none |-> counts(<<>>),
         two |-> counts(<< <<report, was>> >>),
         three |-> counts(<< <<reports, report, was>> >>),
         symbol |-> counts(CHOOSE d \in SymbolDocs : TRUE)]

CountingContents ==
    {<<>>,
     <<PlotCounts.two>>,
     <<PlotCounts.two, PlotCounts.three>>,
     <<PlotCounts.symbol, PlotCounts.none>>}

\* os.path.splitext(filename)[0]
SplitExt(filename) ==
    LET dots == {i \in DOMAIN filename : filename[i] = "."}
    IN  IF dots = {} THEN filename
        ELSE SubSeq(filename, 1, (CHOOSE i \in dots : \A j \in dots : j <= i) - 1)

\* all_stats of calculate_stats (9_calculate_pos_statistics.py) for a counting
\* file: one top-level key, filename[:-5], with the statistics of every tag,
\* of which the readers take the mean.
AllStats(filename, data) ==
    LET frequencies(pos) == [i \in DOMAIN data |-> pos_relative_frequencies(data[i])[pos]]
    IN  << [key |-> SubSeq(filename, 1, Len(filename) - 5),
            value |-> [pos \in PosTags |->
                          [mean |-> IF frequencies(pos) # <<>> THEN np_mean(frequencies(pos))
                                    ELSE Zero]]] >>

\* What json.load or etree.parse gives for a file of the reader's directory:
\* the data it was written from, or nothing for a file that cannot be parsed.
Loads(r) ==
    [condition : {"readable"},
     data : IF r = "read_xml_data" THEN XmlContents ELSE CountingContents]
        \cup {[condition |-> "unreadable", data |-> <<>>]}

\* The content of the file: for the readers of the statistics what
\* calculate_stats wrote, {} for an empty json file.
Content(r, filename, data) ==
    IF r \in {"read_frequency_data", "draft_read_frequency_data"} /\ data # <<>>
    THEN AllStats(filename, data)
    ELSE data

InitPlot ==
    /\ reader \in Readers
    /\ \E names \in DistinctSeqs(PlotNames(ReaderExt(reader)), MaxPlotFiles) :
          \E loads \in [DOMAIN names -> Loads(reader)] :
              plot_dir = [i \in DOMAIN names |->
                             [name |-> names[i],
                              condition |-> loads[i].condition,
                              content |-> Content(reader, names[i], loads[i].data)]]
    /\ plot_data = <<>>
    /\ file_names = <<>>
    /\ read_pc = "start"
    /\ SortIdle
    /\ ScoreIdle
    /\ AggIdle
    /\ BatchIdle
    /\ ChartIdle
    /\ CorpusIdle

\* The files of the directory in the order of sorted(..., key=custom_sort), in
\* separate mode.
SortedPlotFiles ==
    Sorted(plot_dir, [i \in DOMAIN plot_dir |-> custom_sort(plot_dir[i].name, FALSE)])

\* The same for draft.py, which takes the files that start with file_prefix.
SortedDraftFiles ==
    LET input_files == SelectSeq(plot_dir, LAMBDA f : StartsWith(f.name, Prefix) /\ EndsWith(f.name, DotJson))
    IN  Sorted(input_files, [i \in DOMAIN input_files |-> custom_sort_draft(input_files[i].name, FALSE)])

\* The function has returned pos_data (or distances) and file_names, or an
\* exception has ended it.
Returned(data, names) ==
    /\ plot_data' = data
    /\ file_names' = names
    /\ read_pc' = "returned"
    /\ UNCHANGED <<reader, plot_dir>>
    /\ UNCHANGED <<sortVars, scoreVars, aggVars, batchVars, chartVars, corpusVars>>

RaisedIn(exception) ==
    /\ read_pc' = exception
    /\ UNCHANGED <<reader, plot_dir, plot_data, file_names>>
    /\ UNCHANGED <<sortVars, scoreVars, aggVars, batchVars, chartVars, corpusVars>>

\* An average over the sentences of the response instead of its tokens.
distance_per_sentence(response) ==
    LET toks == Flatten([si \in DOMAIN response |-> response[si]])
        total_distance == SumInts([i \in DOMAIN toks |-> IntOf(toks[i].dep_distance)])
    IN  IF Len(response) > 0 THEN PyDivide(total_distance, Len(response)) ELSE Zero

\* The loop body of read_xml_data over the responses of one file: the average
\* dependency distance of a response.
avg_distance(response) ==
    LET toks == Flatten([si \in DOMAIN response |-> response[si]])
        total_distance == SumInts([i \in DOMAIN toks |-> IntOf(toks[i].dep_distance)])
        token_count == Len(toks)
    IN  IF token_count > 0 THEN PyDivide(total_distance, token_count) ELSE Zero

\* read_xml_data of 23_dependency_distance_visualization.py
read_xml_distances ==
    /\ reader = "read_xml_data"
    /\ read_pc = "start"
    /\ LET xml_files == SortedPlotFiles
       IN  IF \E i \in DOMAIN xml_files : xml_files[i].condition = "unreadable"
           THEN RaisedIn("XMLSyntaxError")
           ELSE Returned([i \in DOMAIN xml_files |->
                             [r \in DOMAIN xml_files[i].content |->
                                 avg_distance(xml_files[i].content[r])]],
                         [i \in DOMAIN xml_files |-> SplitExt(xml_files[i].name)])

\* sum(response['pos_counts'].values())
RECURSIVE SumValues(_)
SumValues(pos_counts) ==
    IF DOMAIN pos_counts = {} THEN 0
    ELSE LET pos == CHOOSE p \in DOMAIN pos_counts : TRUE
         IN  pos_counts[pos] + SumValues([p \in DOMAIN pos_counts \ {pos} |-> pos_counts[p]])

\* pos_frequencies of read_counting_data for one file and one tag
pos_frequencies(data, pos) ==
    [r \in DOMAIN data |->
        IF SumValues(data[r]) > 0
        THEN PyDivide(CountOf(data[r], pos), SumValues(data[r]))
        ELSE Zero]

\* read_counting_data of 22_pos_frequency_visualization.py
read_counting_data ==
    /\ reader = "read_counting_data"
    /\ read_pc = "start"
    /\ LET input_files == SortedPlotFiles
       IN  IF \E i \in DOMAIN input_files : input_files[i].condition = "unreadable"
           THEN RaisedIn("JSONDecodeError")
           ELSE Returned([pos \in PosTags |->
                             [i \in DOMAIN input_files |->
                                 pos_frequencies(input_files[i].content, pos)]],
                         [i \in DOMAIN input_files |-> SplitExt(input_files[i].name)])

\* stats[top_level_key].get(pos, {}).get('mean', 0)
MeanOf(file_stats, pos) ==
    LET top == file_stats[1].value
    IN  IF pos \in DOMAIN top THEN top[pos].mean ELSE Zero

\* read_frequency_data of 22_pos_frequency_visualization.py: the first key of
\* an empty dict is an IndexError.
read_frequency_data ==
    /\ reader = "read_frequency_data"
    /\ read_pc = "start"
    /\ LET input_files == SortedPlotFiles
           stopped == {i \in DOMAIN input_files :
                          input_files[i].condition = "unreadable" \/ input_files[i].content = <<>>}
           first == CHOOSE i \in stopped : \A j \in stopped : i <= j
       IN  IF stopped # {}
           THEN RaisedIn(IF input_files[first].condition = "unreadable"
                       THEN "JSONDecodeError" ELSE "IndexError")
           ELSE Returned([pos \in PosTags |->
                             [i \in DOMAIN input_files |-> MeanOf(input_files[i].content, pos)]],
                         [i \in DOMAIN input_files |-> SplitExt(input_files[i].name)])

\* The files whose block under try has appended to pos_data: json.load has
\* not raised, and the data is not empty ("if not stats: continue").
Appended(input_files) ==
    SelectSeq(input_files, LAMBDA f : f.condition = "readable" /\ f.content # <<>>)

\* read_frequency_data of draft.py
draft_read_frequency_data ==
    /\ reader = "draft_read_frequency_data"
    /\ read_pc = "start"
    /\ LET input_files == SortedDraftFiles
           appended == Appended(input_files)
       IN  Returned([pos \in PosTags |->
                        [i \in DOMAIN appended |-> MeanOf(appended[i].content, pos)]],
                    [i \in DOMAIN input_files |-> SplitExt(input_files[i].name)])

\* pos_frequencies of read_counting_data of draft.py
draft_pos_frequencies(data, pos) ==
    [r \in DOMAIN data |->
        LET pos_counts == data[r]
            total_counts == SumValues(pos_counts)
        IN  IF total_counts > 0 THEN PyDivide(CountOf(pos_counts, pos), total_counts) ELSE Zero]

\* read_counting_data of draft.py
draft_read_counting_data ==
    /\ reader = "draft_read_counting_data"
    /\ read_pc = "start"
    /\ LET input_files == SortedDraftFiles
           appended == Appended(input_files)
       IN  Returned([pos \in PosTags |->
                        [i \in DOMAIN appended |-> draft_pos_frequencies(appended[i].content, pos)]],
                    [i \in DOMAIN input_files |-> SplitExt(input_files[i].name)])

NextPlot ==
    \/ read_xml_distances
    \/ read_counting_data
    \/ read_frequency_data
    \/ draft_read_frequency_data
    \/ draft_read_counting_data

SpecPlot == InitPlot /\ [][NextPlot]_vars

-----------------------------------------------------------------------------
(* What the file-ordering claims speak of, stated without the sorters' own   *)
(* parsing: a corpus name is recognised by how it was built.                 *)

Exts == {DotXml, DotJson}

\* The position of a category key in the fixed order en_en, zh_en, en_zh, zh_zh.
CategoryRank(g) == CHOOSE k \in 1..4 : <<en_en, zh_en, en_zh, zh_zh>>[k] = g

IsSplitName(name) ==
    \E g \in LangGroups, d \in FileNumbers, e \in Exts : name = SplitName(g, d, e)

IsMergedName(name) == \E g \in LangGroups, e \in Exts : name = MergedName(g, e)

\* The name holds a category key (with a numeric suffix in split mode).
IsCorpusName(name) == IsSplitName(name) \/ IsMergedName(name)

\* a may stand before b in the canonical order: category key first, then number.
CanonicalPair(a, b) ==
    /\ \A g1, g2 \in LangGroups, d1, d2 \in FileNumbers, e \in Exts :
          a = SplitName(g1, d1, e) /\ b = SplitName(g2, d2, e) =>
              \/ CategoryRank(g1) < CategoryRank(g2)
              \/ g1 = g2 /\ IntOf(d1) <= IntOf(d2)
    /\ \A g1, g2 \in LangGroups, e \in Exts :
          a = MergedName(g1, e) /\ b = MergedName(g2, e) =>
              CategoryRank(g1) <= CategoryRank(g2)

InCanonicalOrder(names) ==
    \A i, j \in DOMAIN names : i < j => CanonicalPair(names[i], names[j])

AllCorpusNames(names) == \A i \in DOMAIN names : IsCorpusName(names[i])

\* The place of a name in a list of distinct names.
IndexOf(names, n) == CHOOSE i \in DOMAIN names : names[i] = n

\* out holds the names of inp, and two names keep their order of inp whenever
\* Tied says their sort keys are equal.
KeepsOrderOfTies(inp, out, Tied(_, _)) ==
    /\ Len(out) = Len(inp)
    /\ \A i, j \in DOMAIN inp :
          i < j /\ Tied(inp[i], inp[j]) => IndexOf(out, inp[i]) < IndexOf(out, inp[j])

TiedByExtractKey(a, b) ==
    ~KeyLess(extract_key(a), extract_key(b)) /\ ~KeyLess(extract_key(b), extract_key(a))

TiedByCustomSort(a, b) ==
    /\ ~KeyLess(custom_sort(a, is_merged), custom_sort(b, is_merged))
    /\ ~KeyLess(custom_sort(b, is_merged), custom_sort(a, is_merged))

-----------------------------------------------------------------------------
(* Claims about the ordering of files (checked under SpecSort). *)

\* C3: a list of names that each hold a category key (with a numeric suffix in
\* split mode, without one in merged mode) leaves sort_files grouped by category
\* in the order en_en, zh_en, en_zh, zh_zh and, within a category, in ascending
\* number.  The rows process_xml_files writes are sort_files' result.
C3_SortFilesCanonicalOrder ==
    pc = "aggregated" /\ AllCorpusNames(csv_rows) => InCanonicalOrder(csv_rows)

\* C4: names that do not match the category-key pattern leave the sorter after
\* all matching names, in their original relative order: in the rows written by
\* process_xml_files (sort_files) and on the chart axis (custom_sort).
C4_UnmatchedNamesSortLast ==
    LET Last(inp, out) ==
            /\ \A i, j \in DOMAIN out :
                  ~IsCorpusName(out[i]) /\ IsCorpusName(out[j]) => j < i
            /\ KeepsOrderOfTies(inp, out, LAMBDA a, b : ~IsCorpusName(a) /\ ~IsCorpusName(b))
    IN  /\ pc = "aggregated" => Last(FilesEndingWith(listing, DotXml), csv_rows)
        /\ pc = "csv_read" => Last(csv_rows, chart_axis)

\* C5: the file-set sorter is idempotent and stable: sorting its output again
\* returns the same list, and names with equal sort keys keep the relative order
\* of the input (sort_files in process_xml_files, sorted by custom_sort in
\* read_csv_data and read_xml_data).
C5_SorterIdempotentAndStable ==
    /\ pc = "aggregated" =>
          /\ sort_files(csv_rows) = csv_rows
          /\ KeepsOrderOfTies(FilesEndingWith(listing, DotXml), csv_rows, TiedByExtractKey)
    /\ pc = "csv_read" =>
          /\ SortedByCustomSort(chart_axis, is_merged) = chart_axis
          /\ KeepsOrderOfTies(csv_rows, chart_axis, TiedByCustomSort)
    /\ pc = "plotted" =>
          /\ SortedByCustomSort(xml_axis, is_merged) = xml_axis
          /\ KeepsOrderOfTies(FilesEndingWith(listing, DotXml), xml_axis, TiedByCustomSort)

\* C5 witness: sort_files has moved a name, and two of the names it sorted have
\* equal keys.
C5_Witness ==
    /\ pc = "aggregated"
    /\ csv_rows # FilesEndingWith(listing, DotXml)
    /\ \E i, j \in DOMAIN csv_rows : i < j /\ TiedByExtractKey(csv_rows[i], csv_rows[j])

\* C6: every output writer traverses the files in the identical order: the CSV
\* rows and JSON records of process_xml_files, the chart axis of read_csv_data
\* and the traversal of read_xml_data list the same names in the same order.
C6_WritersShareOneOrder ==
    /\ pc \in {"aggregated", "csv_read", "plotted"} => json_records = csv_rows
    /\ pc \in {"csv_read", "plotted"} => chart_axis = csv_rows
    /\ pc = "plotted" => xml_axis = csv_rows

\* C7: whatever order the directory lists its files in, the rows of
\* process_all_files and the records of calculate_statistics appear in the
\* canonical order: category key en_en, zh_en, en_zh, zh_zh, then number.
C7_TableRowsCanonicalOrder ==
    pc \in {"tabulated", "recorded"} /\ AllCorpusNames(table_rows) =>
        InCanonicalOrder(table_rows)

-----------------------------------------------------------------------------
(* Claims about the per-response scorers (checked under SpecScore).  What a  *)
(* claim says of a Response is read off the Doc the annotator was given.     *)

DocTokens == Flatten(nlp_doc)

\* The tokens of the Doc whose syntactic head stands after them, and before them.
DocSlots == UNION {{<<si, ti>> : ti \in DOMAIN nlp_doc[si]} : si \in DOMAIN nlp_doc}
HeadAfter == {st \in DocSlots : nlp_doc[st[1]][st[2]].head > st[2]}
HeadBefore == {st \in DocSlots : nlp_doc[st[1]][st[2]].head < st[2]}

\* C1: every per-response scorer yields exactly 0 (no error, no NaN) for a
\* Response whose denominator is 0: no noun tokens (plural-noun frequency, by tag
\* and by lexicon), no sentences (both passive frequencies), no tokens
\* (dependency distance, POS relative frequency of every tag), no token with a
\* head other than itself (both dependency-direction proportions).
C1_ZeroDenominatorYieldsZero ==
    /\ stage = "plural_en"
          /\ (\A i \in DOMAIN DocTokens : DocTokens[i].tag \notin {"NN", "NNP", "NNS", "NNPS"})
          => metric = Zero
    /\ stage = "plural_zh" /\ (\A i \in DOMAIN DocTokens : DocTokens[i].pos # "NOUN")
          => metric = Zero
    /\ stage \in {"passive_en", "passive_zh"} /\ nlp_doc = <<>> => metric = Zero
    /\ stage = "distance" /\ DocTokens = <<>> => metric = Zero
    /\ stage = "direction" /\ HeadAfter = {} /\ HeadBefore = {} => metric = <<Zero, Zero>>
    /\ stage = "pos_frequency" /\ DocTokens = <<>> => \A pos \in PosTags : metric[pos] = Zero

\* C1 witness: the tag-based plural-noun scorer has scored a Response that has
\* tokens but no noun, and a Response of one-token sentences has been given its
\* direction proportions.
C1_Witness ==
    \/ /\ stage = "plural_en"
       /\ DocTokens # <<>>
       /\ \A i \in DOMAIN DocTokens : DocTokens[i].tag \notin {"NN", "NNP", "NNS", "NNPS"}
       /\ metric = Zero
    \/ /\ stage = "direction"
       /\ Len(nlp_doc) > 1
       /\ HeadAfter = {} /\ HeadBefore = {}
       /\ metric = <<Zero, Zero>>

\* C8: calculate_dependency_proportions returns (before, after) with
\* before + after = 1 for a Response that has a token whose head is at another
\* position, and before = after = 0 for every other Response.
C8_DirectionProportionsSumToOne ==
    stage = "direction" =>
        IF HeadAfter # {} \/ HeadBefore # {}
        THEN /\ IsNum(metric[1]) /\ IsNum(metric[2])
             /\ Plus(metric[1], metric[2]) = One
        ELSE metric = <<Zero, Zero>>

\* C8 witness: a Response with heads on both sides, so that neither proportion
\* is 0 or 1.
C8_Witness ==
    /\ stage = "direction"
    /\ HeadAfter # {} /\ HeadBefore # {}
    /\ metric[1] \notin {Zero, One}
    /\ metric[2] \notin {Zero, One}

\* C9: the "before" count is the number of tokens whose head's index is greater
\* than their own, the "after" count the number whose head's index is smaller,
\* a token that is its own head counts in neither: also when several tokens of
\* a sentence share the same surface text.
C9_DirectionCountsFollowHeadIndex ==
    stage = "direction" =>
        direction_counts(response_xml) = <<Cardinality(HeadAfter), Cardinality(HeadBefore)>>

-----------------------------------------------------------------------------
(* What the aggregation claims speak of.                                     *)

\* The SummaryStatistics of the aggregated File, each with the MetricSamples it
\* was computed from.
Summaries ==
    CASE variant \in FrequencyVariants \cup {"distance"} -> {<<samples, stats>>}
      [] variant = "direction" ->
            {<<[i \in DOMAIN samples |-> samples[i][1]], stats.before>>,
             <<[i \in DOMAIN samples |-> samples[i][2]], stats.after>>}
      [] variant = "perplexity_loss" ->
            {<<[i \in DOMAIN samples |-> samples[i].perplexity], stats.perplexity>>,
             <<[i \in DOMAIN samples |-> samples[i].loss], stats.loss>>}
      [] variant = "pos_frequency" ->
            {<<[i \in DOMAIN samples |-> pos_relative_frequencies(samples[i])[pos]], stats[pos]>> :
                pos \in PosTags}

\* The first RecordLimit values of xs: what calculate_statistics reads of a
\* perplexity file.
FirstRecords(xs) == SubSeq(xs, 1, IF Len(xs) < RecordLimit THEN Len(xs) ELSE RecordLimit)

\* The SummaryStatistics of the aggregated File, each with the MetricSamples
\* the aggregator has read.
SummariesOfRecordsRead ==
    IF variant = "perplexity_loss"
    THEN {<<FirstRecords(sm[1]), sm[2]>> : sm \in Summaries}
    ELSE Summaries

\* Population standard deviation / mean * 100 of the samples xs, from the
\* moments: 100 * sqrt(N * sum(x^2) / sum(x)^2 - 1); undefined for no samples.
PopulationCV(xs) ==
    IF xs = <<>> THEN NaN
    ELSE LET sum == SumOf(xs)
             squares == SumOf([i \in DOMAIN xs |-> Times(xs[i], xs[i])])
         IN  ScaledSqrt(100, Minus(Over(Times(Whole(Len(xs)), squares), Times(sum, sum)), One))

Negative(x) ==
    \/ x.k = "num" /\ x.n < 0
    \/ x.k = "surd" /\ x.times < 0

\* C2: for every File and every metric variant, the coefficient of variation
\* is 0 whenever the File's mean is 0, is the population standard deviation
\* over the mean times 100 otherwise, and is never negative.
C2_CoefficientOfVariation ==
    phase = "aggregated" =>
        \A sm \in SummariesOfRecordsRead :
            /\ IF sm[2].mean = Zero
               THEN sm[2].cv = Zero
               ELSE sm[2].cv = PopulationCV(sm[1])
            /\ ~Negative(sm[2].cv)

\* C10: for every metric variant, a File of zero Responses yields a
\* SummaryStatistic whose count, mean, standard deviation and coefficient of
\* variation are all 0: no NaN, no error.
C10_EmptyFileYieldsAllZeros ==
    phase = "aggregated" /\ samples = <<>> =>
        \A sm \in Summaries :
            /\ sm[2].mean = Zero
            /\ sm[2].std_dev = Zero
            /\ sm[2].cv = Zero
            /\ "count" \in DOMAIN sm[2] => sm[2].count = 0

-----------------------------------------------------------------------------
(* What the claims about malformed tokens speak of.                          *)

Exceptions == {"ZeroDivisionError", "TypeError", "AttributeError"}

ScorerStages ==
    {"plural_en", "plural_zh", "passive_en", "passive_zh", "distance", "direction",
     "pos_frequency"}

\* The scorer's call raised instead of returning.
Raised ==
    CASE stage = "direction" -> metric[1].k \in Exceptions
      [] stage = "pos_frequency" -> \E pos \in PosTags : metric[pos].k \in Exceptions
      [] OTHER -> metric.k \in Exceptions

\* The tokens of the file that lack an attribute or the text the annotator wrote.
MalformedTokens ==
    {st \in DocSlots : DOMAIN response_xml[st[1]][st[2]] # DOMAIN (IF corpus = "dep"
                           THEN dependency_parsing(nlp_doc) ELSE pos_tagging(nlp_doc))[st[1]][st[2]]}

\* C11: scoring a Response with a token that lacks an expected attribute or has
\* no surface text completes without raising, for every scorer.
C11_MalformedTokenNeverRaises ==
    stage \in ScorerStages /\ MalformedTokens # {} => ~Raised

-----------------------------------------------------------------------------
(* What the batch claims speak of.                                           *)

\* The Files of the directory the run can read, and those it cannot.
CanBeRead(file) == file.condition \in {"readable", "no_responses"}
Names(rows) == {rows[i] : i \in DOMAIN rows}

\* C12: when the batch run has ended, every File that can be read has its
\* output record, whatever Files before it were missing or unparsable, and the
\* run has reported every File it skipped.
C12_BadFileNeverAbortsBatch ==
    outcome \notin {"running", "idle"} =>
        \A i \in DOMAIN input_dir :
            IF CanBeRead(input_dir[i])
            THEN /\ input_dir[i].name \in Names(output_csv)
                 /\ script \in {"16", "20"} => input_dir[i].name \in Names(output_json)
            ELSE \E l \in DOMAIN stdout :
                    stdout[l].line = "Skipped" /\ stdout[l].file = input_dir[i].name

-----------------------------------------------------------------------------
(* What the claims about unrecognised names speak of.                        *)

\* The names given to the script that do not match the category-key pattern of
\* its mode.
UnrecognizedNames ==
    {chart_input[i] : i \in {j \in DOMAIN chart_input : NoMatch(chart_input[j], chart_merged)}}

\* C13: a name that does not match the category-key pattern is never fatal to
\* the sort, the labels or the chart, and once the chart is rendered a warning
\* has been logged for the name.
C13_UnrecognizedNameNeverFatal ==
    UnrecognizedNames # {} =>
        /\ raised = ""
        /\ chart_pc = "rendered" => UnrecognizedNames \subseteq warnings

-----------------------------------------------------------------------------
(* What the claims about the values of the scorers speak of.                 *)

\* x is a number of the closed interval [0, 1].
InUnitInterval(x) == IsNum(x) /\ 0 <= x.n /\ x.n <= x.d

\* C14: the tag-based plural-noun frequency, the tag-sequence and the
\* marker-based passive frequency and every per-tag POS relative frequency of a
\* Response are numbers in [0, 1].
C14_FrequenciesInUnitInterval ==
    /\ stage \in {"plural_en", "passive_en", "passive_zh"} => InUnitInterval(metric)
    /\ stage = "pos_frequency" => \A pos \in PosTags : InUnitInterval(metric[pos])

\* C14 witness: a Response has been given a tag-based plural-noun frequency
\* strictly between 0 and 1.
C14_Witness ==
    /\ stage = "plural_en"
    /\ InUnitInterval(metric)
    /\ 0 < metric.n /\ metric.n < metric.d

\* C15: the lexical (Chinese) plural-noun frequency of a Response is a number
\* in [0, 1]: the tokens counted as plural never outnumber the NOUN tokens.
C15_LexicalPluralFrequencyInUnitInterval ==
    stage = "plural_zh" => InUnitInterval(metric)

\* The fine tags of the tokens of the Doc, in document order.
DocFineTags == [i \in DOMAIN DocTokens |-> DocTokens[i].tag]

\* How many tokens of the Doc have a fine tag of the set.
Tagged(tags) == Cardinality({i \in DOMAIN DocTokens : DocTokens[i].tag \in tags})

\* C16: the tag-based plural-noun frequency of a Response is the number of its
\* tokens tagged NNS or NNPS over the number tagged NN, NNP, NNS or NNPS (0 if
\* there is none), whatever its other tokens; [NN, NNS, NNS] gives 2/3.
C16_TagBasedPluralFrequency ==
    stage = "plural_en" =>
        /\ Tagged({"NN", "NNP", "NNS", "NNPS"}) > 0 =>
              metric = Frac(Tagged({"NNS", "NNPS"}), Tagged({"NN", "NNP", "NNS", "NNPS"}))
        /\ DocFineTags = <<"NN", "NNS", "NNS">> => metric = Frac(2, 3)

\* C16 witness: the Response tagged [NN, NNS, NNS] has been scored 2/3.
C16_Witness ==
    /\ stage = "plural_en"
    /\ DocFineTags = <<"NN", "NNS", "NNS">>
    /\ metric = Frac(2, 3)

\* The sentences of the Doc in which a token of coarse tag AUX is immediately
\* followed by a token of fine tag VBN.
PassiveSentences ==
    {si \in DOMAIN nlp_doc :
        \E ti \in DOMAIN nlp_doc[si] :
            /\ ti + 1 \in DOMAIN nlp_doc[si]
            /\ nlp_doc[si][ti].pos = "AUX"
            /\ nlp_doc[si][ti + 1].tag = "VBN"}

\* The texts of the tokens of the Doc, sentence by sentence.
DocTexts == [si \in DOMAIN nlp_doc |-> [ti \in DOMAIN nlp_doc[si] |-> nlp_doc[si][ti].text]]

TheReportWasFiled ==
    << <<"T", "h", "e">>, <<"r", "e", "p", "o", "r", "t">>, <<"w", "a", "s">>,
       <<"f", "i", "l", "e", "d">> >>

\* C17: the tag-sequence passive frequency of a Response is the number of its
\* sentences that have an AUX token immediately followed by a VBN token, each
\* counted once, over the number of its sentences; "The report was filed" is
\* such a sentence.
C17_TagSequencePassiveFrequency ==
    stage = "passive_en" =>
        /\ nlp_doc # <<>> => metric = Frac(Cardinality(PassiveSentences), Len(nlp_doc))
        /\ DocTexts = <<TheReportWasFiled>> => PassiveSentences = {1} /\ metric = One

\* C17 witness: the Response "The report was filed" has been scored.
C17_Witness ==
    /\ stage = "passive_en"
    /\ DocTexts = <<TheReportWasFiled>>
    /\ metric = One

\* The sentences of the Doc that have a token whose text is exactly the marker.
MarkedSentences ==
    {si \in DOMAIN nlp_doc : \E ti \in DOMAIN nlp_doc[si] : nlp_doc[si][ti].text = <<"bei">>}

\* The Doc has a token that contains the marker inside a longer text.
MarkerInsideLongerText ==
    \E i \in DOMAIN DocTokens :
        DocTokens[i].text # <<"bei">> /\ Contains(DocTokens[i].text, <<"bei">>)

\* C18: the marker-based passive frequency of a Response is the number of its
\* sentences with a token whose text is exactly the passive marker over the
\* number of its sentences; a token that only contains the marker does not count.
C18_MarkerPassiveFrequency ==
    stage = "passive_zh" /\ nlp_doc # <<>> =>
        metric = Frac(Cardinality(MarkedSentences), Len(nlp_doc))

\* C18 witness: a Response with a token that contains the marker in a longer
\* text, and no token that is the marker, has been scored 0.
C18_Witness ==
    /\ stage = "passive_zh"
    /\ MarkerInsideLongerText
    /\ MarkedSentences = {}
    /\ metric = Zero

-----------------------------------------------------------------------------
(* What the mean and standard deviation claims speak of.                     *)

\* sum(xs) / N
ArithmeticMean(xs) == Over(SumOf(xs), Whole(Len(xs)))

\* The population standard deviation of xs from its moments:
\* sqrt((N * sum(x^2) - sum(x)^2) / N^2).
PopulationStd(xs) ==
    LET sum == SumOf(xs)
        squares == SumOf([i \in DOMAIN xs |-> Times(xs[i], xs[i])])
        N == Len(xs)
    IN  Sqrt(Over(Minus(Times(Whole(N), squares), Times(sum, sum)), Whole(N * N)))

\* x >= 0 written with the given number of decimals reads r / 10^digits:
\* r - 1/2 <= x * 10^digits < r + 1/2.
RoundsTo(x, digits, r) ==
    IF x.k = "surd"
    THEN LET square == 4 * x.times * x.times * x.n * PowerOfTen(digits) * PowerOfTen(digits)
         IN  /\ (2 * r - 1) * (2 * r - 1) * x.d <= square
             /\ square < (2 * r + 1) * (2 * r + 1) * x.d
    ELSE /\ x.k = "num"
         /\ (2 * r - 1) * x.d <= 2 * x.n * PowerOfTen(digits)
         /\ 2 * x.n * PowerOfTen(digits) < (2 * r + 1) * x.d

\* The mean and standard deviation of the summary sm are those of its samples;
\* the File [0.2, 0.4, 0.6] has mean 0.4, std 0.1633 and CV 40.82%.
MeanAndPopulationStd(sm) ==
    /\ sm[2].mean = ArithmeticMean(sm[1])
    /\ sm[2].std_dev = PopulationStd(sm[1])
    /\ sm[1] = ThreeResponseFile =>
          /\ sm[2].mean = Frac(4, 10)
          /\ RoundsTo(sm[2].std_dev, 4, 1633)
          /\ RoundsTo(sm[2].cv, 2, 4082)

\* C19 as the spec states it: for every non-empty sequence of MetricSamples
\* the aggregator returns the arithmetic mean and the population standard
\* deviation (divisor N) over the full sample, and for [0.2, 0.4, 0.6] the
\* mean 0.4, the std 0.1633 and the CV 40.82%.
C19_MeanAndStdOverFullSample ==
    phase = "aggregated" /\ samples # <<>> =>
        \A sm \in Summaries : MeanAndPopulationStd(sm)

\* C19, amended: for every non-empty sequence of MetricSamples the aggregator
\* returns the arithmetic mean and the population standard deviation (divisor
\* N) over the samples it has read, which are all of them, except that of a
\* perplexity file only the first RecordLimit entries are read; for
\* [0.2, 0.4, 0.6] the mean is 0.4, the std 0.1633 and the CV 40.82%.
C19_MeanAndStdOverRecordsRead ==
    phase = "aggregated" /\ samples # <<>> =>
        \A sm \in SummariesOfRecordsRead : MeanAndPopulationStd(sm)

\* The File [0.2, 0.4, 0.6] aggregated by process_xml_file: std^2 = 2/75.
C19_Witness ==
    /\ phase = "aggregated"
    /\ variant = "plural_en"
    /\ samples = ThreeResponseFile
    /\ stats.count = 3
    /\ stats.std_dev = Sqrt(Frac(2, 75))

-----------------------------------------------------------------------------
(* What the POS relative frequency claim speaks of.                          *)

\* The tokens of the <response> element, and those of them with the coarse tag.
ResponseTokens == AllTokens(response_xml)
TokensTagged(pos) == {i \in DOMAIN ResponseTokens : Get(ResponseTokens[i], "pos") = pos}

\* C20: for every Response and every tag of the fixed inventory, the POS
\* relative frequency is the number of the Response's tokens with that coarse
\* tag over the number of all its tokens (0 for no tokens): tokens with a
\* missing or empty coarse tag, or one outside the inventory, count in the
\* denominator.
C20_PosFrequencyOverAllTokens ==
    stage = "pos_frequency" =>
        \A pos \in PosTags :
            metric[pos] = IF ResponseTokens = <<>> THEN Zero
                          ELSE Frac(Cardinality(TokensTagged(pos)), Len(ResponseTokens))

-----------------------------------------------------------------------------
(* What the claims about the records of a batch speak of.                    *)

\* The record the Responses of the File alone give.
OwnRecord(file) ==
    CASE script = "16" -> DistanceRecord(file)
      [] script = "17" -> DirectionRecord(file)
      [] script = "20" -> PerplexityRecord(file)

\* The rows of an output that carry the name.
RowsNamed(rows, name) == {i \in DOMAIN rows : rows[i].file = name}

\* C21: when the batch run has ended, the CSV and the JSON hold exactly one
\* record for every File of the batch, and that record is the one the File's
\* own Responses give, whatever the other Files of the batch are.
C21_OneRecordPerFileFromOwnResponses ==
    outcome \notin {"running", "idle"} =>
        \A i \in DOMAIN input_dir :
            CanBeRead(input_dir[i]) =>
                /\ \E r \in DOMAIN output_csv :
                      /\ RowsNamed(output_csv, input_dir[i].name) = {r}
                      /\ output_csv[r] = OwnRecord(input_dir[i]).csv
                /\ \E r \in DOMAIN output_json :
                      /\ RowsNamed(output_json, input_dir[i].name) = {r}
                      /\ output_json[r] = OwnRecord(input_dir[i]).json

\* The number a decimal text reads as.
ReadDecimal(text) ==
    LET dots == {i \in DOMAIN text : text[i] = "."}
    IN  IF text = <<"n", "a", "n">> THEN NaN
        ELSE IF dots = {} THEN Whole(IntOf(text))
        ELSE LET dot == CHOOSE i \in dots : TRUE
                 decimals == SubSeq(text, dot + 1, Len(text))
             IN  Frac(IntOf(SubSeq(text, 1, dot - 1) \o decimals), PowerOfTen(Len(decimals)))

\* The number of decimals of a text: the characters after its dot, a final
\* percent sign left out.
Decimals(text) ==
    LET dots == {i \in DOMAIN text : text[i] = "."}
        last == IF text # <<>> /\ text[Len(text)] = "%" THEN Len(text) - 1 ELSE Len(text)
    IN  IF dots = {} THEN 0 ELSE last - (CHOOSE i \in dots : TRUE)

\* C22: for every File, the CSV row and the JSON record written by
\* process_xml_files carry the same content: the same means and standard
\* deviations, rounded to 4 decimals, and the same CV string, a percentage
\* with exactly 2 decimals ("40.80%" for a CV of 40.8, in both).
C22_CsvRowAndJsonRecordAgree ==
    script \in {"16", "17"} /\ outcome = "completed" =>
        /\ Len(output_csv) = Len(output_json)
        /\ \A i \in DOMAIN output_csv :
              /\ output_csv[i].file = output_json[i].file
              /\ Len(output_csv[i].cells) = Len(output_json[i].values)
              /\ \A c \in DOMAIN output_csv[i].cells :
                    LET cell == output_csv[i].cells[c]
                        value == output_json[i].values[c]
                    IN  IF c % 3 = 0
                        THEN /\ cell = value
                             /\ cell[Len(cell)] = "%"
                             /\ Decimals(cell) = 2
                        ELSE /\ ReadDecimal(cell) = ReadDecimal(value)
                             /\ Decimals(value) <= 4

\* A text of digits only, and of one digit at least.
IsNumeral(text) == text # <<>> /\ \A c \in DOMAIN text : text[c] \in DigitChars

\* An id of the form p<i>-r<j>
IsPromptResponseId(id) ==
    \E dash \in DOMAIN id :
        /\ dash + 1 \in DOMAIN id
        /\ id[1] = "p"
        /\ IsNumeral(SubSeq(id, 2, dash - 1))
        /\ id[dash] = "-"
        /\ id[dash + 1] = "r"
        /\ IsNumeral(SubSeq(id, dash + 2, Len(id)))

\* No two Responses of the file share an id.
IdsDiffer(responses) ==
    Cardinality({responses[k].id : k \in DOMAIN responses}) = Len(responses)

\* The number of Responses of the raw files before file i.
RECURSIVE ResponsesBefore(_)
ResponsesBefore(i) ==
    IF i = 1 THEN 0 ELSE ResponsesBefore(i - 1) + Len(raw_files[i - 1])

\* C23: after merge_xml_files or formalize_xml_files has run, every Response
\* of an output file carries an id of the form p<i>-r<j> and no two Responses
\* of one output file share an id; the merged file holds the Responses of the
\* input files 1 to 10 in that order, each with its text stripped.
C23_IdsUniqueAndMergedInInputOrder ==
    /\ corpus_pc \in {"merged", "extracted", "scored"} =>
          /\ \A k \in DOMAIN merged_xml : IsPromptResponseId(merged_xml[k].id)
          /\ IdsDiffer(merged_xml)
          /\ Len(merged_xml) = ResponsesBefore(PromptFiles) + Len(raw_files[PromptFiles])
          /\ \A i \in 1..PromptFiles : \A j \in DOMAIN raw_files[i] :
                LET response == merged_xml[ResponsesBefore(i) + j]
                IN  /\ response.id = <<"p">> \o Str(i) \o <<"-", "r">> \o raw_files[i][j].id
                    /\ response.text = strip(raw_files[i][j].text)
    /\ corpus_pc = "formalized" =>
          \A i \in 1..PromptFiles :
              /\ \A k \in DOMAIN formalized_xml[i] : IsPromptResponseId(formalized_xml[i][k].id)
              /\ IdsDiffer(formalized_xml[i])

\* Every prompt's file has Responses, and they have been merged.
C23_Witness ==
    /\ corpus_pc = "merged"
    /\ Len(merged_xml) > PromptFiles
    /\ \A i \in 1..PromptFiles : Len(raw_files[i]) >= 2


\* The number of the raw file the k-th Response of the merged file comes
\* from: the prompt that produced it.
ProducerOf(k) ==
    CHOOSE i \in 1..PromptFiles :
        ResponsesBefore(i) < k /\ k <= ResponsesBefore(i) + Len(raw_files[i])

\* ceil(k / 100)
BatchOf(k) == (k + batch_size - 1) \div batch_size

\* C30: the text file has exactly one line per Response of the merged file,
\* line k being Response k, and every line k is scored, against prompt
\* ceil(k/100), which is the prompt that produced Response k; also when a
\* Response is empty or has line breaks.
C30_LineKIsResponseKScoredAgainstItsPrompt ==
    /\ corpus_pc \in {"extracted", "scored"} =>
          /\ Len(text_lines) = Len(merged_xml)
          /\ \A k \in DOMAIN text_lines : text_lines[k] = merged_xml[k].text
    /\ corpus_pc = "scored" =>
          \A r \in DOMAIN perplexity_results :
              LET k == perplexity_results[r].line_number
              IN  /\ perplexity_results[r].prompt = BatchOf(k)
                  /\ k \in DOMAIN merged_xml
                  /\ perplexity_results[r].prompt = ProducerOf(k)

\* C24: in separate mode, the File names sorted with custom_sort as key stand
\* by language pair in the order en_en, zh_en, en_zh, zh_zh and, within a
\* language pair, by number (the axis read_xml_data sorts the directory's
\* names to).
C24_SeparateModeByPairThenNumber ==
    pc = "plotted" /\ ~is_merged /\ AllCorpusNames(xml_axis) =>
        /\ xml_axis = SortedByCustomSort(FilesEndingWith(listing, DotXml), FALSE)
        /\ InCanonicalOrder(xml_axis)

\* The tokens of the Doc the lexical plural-noun scorer is to count as plural:
\* a NOUN that ends with the plural suffix, a DET that is one of the plural
\* determiners, a NUM that is one of the plural numerals.
LexicalPlurals ==
    {i \in DOMAIN DocTokens :
        \/ DocTokens[i].pos = "NOUN" /\ \E suffix \in suffix_plural : EndsWith(DocTokens[i].text, suffix)
        \/ DocTokens[i].pos = "DET" /\ DocTokens[i].text \in det_plural
        \/ DocTokens[i].pos = "NUM" /\ DocTokens[i].text \in num_plural}

\* C25: the lexical plural-noun scorer counts a NOUN token as plural exactly
\* when its surface form ends with the plural suffix, a DET token only when it
\* is one of the two plural determiners, a NUM token only when it is one of
\* the two plural numerals, and no other token: the frequency of a Response
\* with a NOUN is that count over the number of its NOUN tokens.
C25_LexicalPluralCountsSuffixAndLexicon ==
    LET nouns == Cardinality({i \in DOMAIN DocTokens : DocTokens[i].pos = "NOUN"})
    IN  stage = "plural_zh" /\ IsNum(metric) /\ nouns > 0 =>
            metric = PyDivide(Cardinality(LexicalPlurals), nouns)

\* The file of the reader's directory that file_names lists as stem.
FileNamed(stem) ==
    plot_dir[CHOOSE i \in DOMAIN plot_dir : SplitExt(plot_dir[i].name) = stem]

\* The places of the tokens of a <response>, and the dep_distance of a token.
TokenSlots(response) == UNION {{<<si, ti>> : ti \in DOMAIN response[si]} : si \in DOMAIN response}
DistanceAt(response, slot) == IntOf(response[slot[1]][slot[2]].dep_distance)

\* The sum of dep_distance over all tokens of all sentences: every distance
\* times the number of tokens that have it.
TotalDistance(response) ==
    LET slots == TokenSlots(response)
    IN  SumInts([d \in 1..Cardinality(slots) |->
                    d * Cardinality({slot \in slots : DistanceAt(response, slot) = d})])

\* C26: the dependency-distance sample of a Response is the sum of
\* dep_distance over all tokens of all its sentences over the number of its
\* tokens, and the values read_xml_data computes for the box plot of a file
\* are those calculate_distance computes for its statistics, in value and in
\* order.
C26_BoxPlotDistancesAreTheStatisticsSamples ==
    reader = "read_xml_data" /\ read_pc = "returned" =>
        /\ Len(plot_data) = Len(file_names)
        /\ \A i \in DOMAIN plot_data :
              LET responses == FileNamed(file_names[i]).content
              IN  /\ Len(plot_data[i]) = Len(responses)
                  /\ \A r \in DOMAIN responses :
                        /\ plot_data[i][r] = response_avg_distance(responses[r])
                        /\ TokenSlots(responses[r]) # {} =>
                              plot_data[i][r] = PyDivide(TotalDistance(responses[r]),
                                                         Cardinality(TokenSlots(responses[r])))

\* read_xml_data has returned the distances of a file of two Responses whose
\* samples differ, one of them of more than one sentence.
C26_Witness ==
    /\ reader = "read_xml_data"
    /\ read_pc = "returned"
    /\ \E i \in DOMAIN plot_data :
          /\ Len(plot_data[i]) = 2
          /\ plot_data[i][1] # plot_data[i][2]
          /\ plot_data[i][1] # Zero
          /\ plot_data[i][2] # Zero
          /\ \E r \in 1..2 : Len(FileNamed(file_names[i]).content[r]) > 1

\* C27: for every Response's pos_counts, the relative frequency of every tag
\* that calculate_stats computes equals the one read_counting_data computes
\* for the box plot, and the frequencies of a Response with at least one
\* counted token, summed over the tag inventory, are 1.
C27_BoxPlotFrequenciesAreTheStatisticsFrequencies ==
    reader = "read_counting_data" /\ read_pc = "returned" =>
        \A i \in DOMAIN file_names :
            LET data == FileNamed(file_names[i]).content
            IN  \A r \in DOMAIN data :
                    /\ \A pos \in PosTags :
                          plot_data[pos][i][r] = pos_relative_frequencies(data[r])[pos]
                    /\ SumValues(data[r]) > 0 =>
                          /\ SumOf([k \in DOMAIN pos_order |-> plot_data[pos_order[k]][i][r]]) = One
                          /\ SumOf([k \in DOMAIN pos_order |->
                                      pos_relative_frequencies(data[r])[pos_order[k]]]) = One

\* The entry of pos_data that belongs to a file: the mean the file gives for
\* the tag, or the frequencies of its Responses.
EntryOf(file, pos) ==
    IF reader \in {"read_frequency_data", "draft_read_frequency_data"}
    THEN file.content[1].value[pos].mean
    ELSE [r \in DOMAIN file.content |->
             IF SumValues(file.content[r]) > 0
             THEN PyDivide(CountOf(file.content[r], pos), SumValues(file.content[r]))
             ELSE Zero]

\* C29: after read_frequency_data or read_counting_data has returned, whatever
\* the input files are (empty and unreadable ones too), every per-tag list of
\* pos_data is as long as file_names and its i-th entry belongs to the i-th
\* file name.
C29_PosDataAlignedWithFileNames ==
    reader \in Readers \ {"read_xml_data"} /\ read_pc = "returned" =>
        \A pos \in PosTags :
            /\ Len(plot_data[pos]) = Len(file_names)
            /\ \A i \in DOMAIN file_names :
                  LET file == FileNamed(file_names[i])
                  IN  file.condition = "readable" /\ file.content # <<>> =>
                          /\ i \in DOMAIN plot_data[pos]
                          /\ plot_data[pos][i] = EntryOf(file, pos)

\* The names the script's sort is given: draft.py takes those that start with
\* file_prefix.
NamesToSort ==
    IF viz = "draft" THEN SelectSeq(chart_input, LAMBDA f : StartsWith(f, Prefix))
    ELSE chart_input

\* C28: in merged and in separate mode, the keys custom_sort of 21_ and of
\* draft.py returns for the names of a list are mutually comparable, so that
\* sorting a list that mixes matching and non-matching names completes: no
\* comparison of keys of different shapes ends it, and every name is in the
\* sorted list.
C28_SortKeysMutuallyComparable ==
    viz \in {"21", "draft"} /\ chart_pc = "sorted" =>
        /\ ~MixedKeys(ChartKeys(NamesToSort))
        /\ raised # "TypeError"
        /\ Len(sorted_names) = Len(NamesToSort)

=============================================================================
